---------------------------- MODULE Spec2Model ----------------------------
(***************************************************************************)
(* A model of pyGSTi's ConfidenceRegion                                    *)
(* (src/packages/pygsti/objects/confidenceregion.py).                      *)
(*                                                                         *)
(* Numbers.  A float is a record [k, n, d]: a finite rational n/d (d > 0,  *)
(* reduced), an infinity (n its sign) or NaN, with IEEE-754's rules for    *)
(* 0*inf, inf-inf and x/0 (numpy's float64 scalars and dot products do not *)
(* raise on them).  Rounding, overflow and the sign of zero are not        *)
(* modelled.                                                               *)
(*                                                                         *)
(* Units.  The chi-squared quantile C1 = chi2.ppf(level/100, 1) comes from *)
(* scipy and is finite and positive for every level the constructor lets   *)
(* through; the model keeps it symbolic.  regionQuadcForm is stored in     *)
(* units of 1/C1 and invRegionQuadcForm, profLCI^2 and df^2 in units of    *)
(* C1.  A square root is stored as its radicand (SqrtOf).                  *)
(*                                                                         *)
(* Confidence levels are integers in tenths of a percent (950 is 95%).     *)
(* Gate-set parameters and function values are in units of one finite-     *)
(* difference step of size 1 (the eps argument counts those units).        *)
(***************************************************************************)
EXTENDS Integers, Sequences, FiniteSets, TLC

---------------------------------------------------------------------------
(* IEEE-like arithmetic on extended rationals                              *)

RECURSIVE GCD(_, _)
GCD(a, b) == IF b = 0 THEN a ELSE GCD(b, a % b)

AbsInt(a) == IF a < 0 THEN -a ELSE a

Fin(n, d) ==
  LET g == GCD(AbsInt(n), AbsInt(d))
      s == IF d < 0 THEN -1 ELSE 1
  IN  [k |-> "fin", n |-> s * (n \div g), d |-> s * (d \div g)]

Int2F(n) == [k |-> "fin", n |-> n, d |-> 1]
Zero == Int2F(0)
PInf == [k |-> "inf", n |-> 1, d |-> 1]
NInf == [k |-> "inf", n |-> -1, d |-> 1]
NaN  == [k |-> "nan", n |-> 0, d |-> 1]

IsNaN(x)  == x.k = "nan"
IsInf(x)  == x.k = "inf"
IsFin(x)  == x.k = "fin"
IsZero(x) == x.k = "fin" /\ x.n = 0
SignOf(x) == IF x.n > 0 THEN 1 ELSE IF x.n < 0 THEN -1 ELSE 0

FMul(x, y) ==
  IF IsNaN(x) \/ IsNaN(y) THEN NaN
  ELSE IF IsInf(x) \/ IsInf(y)
       THEN IF IsZero(x) \/ IsZero(y) THEN NaN
            ELSE IF SignOf(x) * SignOf(y) > 0 THEN PInf ELSE NInf
       ELSE Fin(x.n * y.n, x.d * y.d)

FAdd(x, y) ==
  IF IsNaN(x) \/ IsNaN(y) THEN NaN
  ELSE IF IsInf(x) /\ IsInf(y) THEN (IF x.n = y.n THEN x ELSE NaN)
  ELSE IF IsInf(x) THEN x
  ELSE IF IsInf(y) THEN y
  ELSE Fin(x.n * y.d + y.n * x.d, x.d * y.d)

FNeg(x) == IF IsNaN(x) THEN NaN ELSE [x EXCEPT !.n = -x.n]
FSub(x, y) == FAdd(x, FNeg(y))
FAbs(x) == IF IsNaN(x) THEN NaN ELSE [x EXCEPT !.n = AbsInt(x.n)]

\* x / y for float64: x/0 is +-inf (0/0 is NaN) with a warning, never an exception
FDiv(x, y) ==
  IF IsNaN(x) \/ IsNaN(y) THEN NaN
  ELSE IF IsInf(y) THEN (IF IsInf(x) THEN NaN ELSE Zero)
  ELSE IF IsZero(y)
       THEN IF IsZero(x) THEN NaN
            ELSE IF SignOf(x) > 0 THEN PInf ELSE NInf
  ELSE IF IsInf(x) THEN (IF SignOf(x) * SignOf(y) > 0 THEN PInf ELSE NInf)
  ELSE Fin(x.n * y.d, x.d * y.n)

\* x < y on numbers that are not NaN
FLess(x, y) ==
  IF IsInf(x) THEN x.n < 0 /\ ~(IsInf(y) /\ y.n < 0)
  ELSE IF IsInf(y) THEN y.n > 0
  ELSE x.n * y.d < y.n * x.d

\* numpy.sqrt: the root of a negative number or of NaN is NaN; a root is kept
\* as its radicand
SqrtOf(x) ==
  IF IsNaN(x) \/ x.n < 0 THEN [rad |-> NaN] ELSE [rad |-> x]

RootIsNaN(r) == IsNaN(r.rad)
\* r >= 0 as a float comparison (False for NaN, True for +inf)
RootNonNeg(r) == ~IsNaN(r.rad)
RootIsZero(r) == IsZero(r.rad)

---------------------------------------------------------------------------
(* vectors and matrices (sequences, and sequences of rows)                 *)

RECURSIVE FSum(_)
FSum(s) == IF s = <<>> THEN Zero ELSE FAdd(FSum(SubSeq(s, 1, Len(s) - 1)), s[Len(s)])

VDot(u, v) == FSum([k \in 1..Len(u) |-> FMul(u[k], v[k])])
Col(B, j) == [k \in 1..Len(B) |-> B[k][j]]
\* numpy.dot of two square matrices
Dot(A, B) == [i \in 1..Len(A) |-> [j \in 1..Len(A) |-> VDot(A[i], Col(B, j))]]
\* numpy.dot of a matrix and a vector
MatVec(A, v) == [i \in 1..Len(A) |-> VDot(A[i], v)]
Transpose(A) == [i \in 1..Len(A) |-> Col(A, i)]
Diag(v) == [i \in 1..Len(v) |-> [j \in 1..Len(v) |-> IF i = j THEN v[i] ELSE Zero]]
DiagOf(A) == [i \in 1..Len(A) |-> A[i][i]]

---------------------------------------------------------------------------
(* The gate-set estimate (the GateSet class is not among the sources; it   *)
(* is modelled from the interface the specification lists in section 6).   *)
(* An estimate holds state-preparation vectors, effect vectors and gate    *)
(* matrices; a gate matrix is a sequence of rows.                          *)

GateLabels == <<"Gx", "Gy">>

\* nGauge: how many gauge directions the estimate's parameter space has
Estimate0(nGauge) ==
  [nGauge  |-> nGauge,
   rhoVecs |-> << <<3, 5>> >>,
   EVecs   |-> << <<7>> >>,
   gates   |-> [l \in {"Gx", "Gy"} |-> IF l = "Gx" THEN << <<2>>, <<4>> >>
                                                   ELSE << <<6>>, <<8>> >>]]

RECURSIVE Flatten(_)
Flatten(rows) == IF rows = <<>> THEN <<>> ELSE Head(rows) \o Flatten(Tail(rows))

RECURSIVE ConcatAll(_)
ConcatAll(ss) == IF ss = <<>> THEN <<>> ELSE Head(ss) \o ConcatAll(Tail(ss))

SeqToSet(s) == {s[i] : i \in 1..Len(s)}

\* "rho%d" % k and "E%d" % k, k counted from 0 as enumerate() does
RhoLabel(k) == IF k = 0 THEN "rho0" ELSE "rho1"
ELabel(k)   == IF k = 0 THEN "E0" ELSE "E1"

\* the gates flag: True, False, or a list of gate labels
GatesTrue  == [tag |-> "bool", val |-> TRUE,  labels |-> <<>>]
GatesFalse == [tag |-> "bool", val |-> FALSE, labels |-> <<>>]
GatesList(ls) == [tag |-> "list", val |-> FALSE, labels |-> ls]

GatesToInclude(gates) ==
  IF gates.tag = "list" THEN gates.labels
  ELSE IF gates.val THEN GateLabels ELSE <<>>

\* gate.to_vector(G0): the flattened matrix, without its first row unless G0
GateToVector(mx, G0) == IF G0 THEN Flatten(mx) ELSE Flatten(Tail(mx))
GateNumParams(mx, G0) == Len(GateToVector(mx, G0))

\* gate.from_vector(v, G0)
GateFromVector(mx, v, G0) ==
  LET w == Len(mx[1])
      skip == IF G0 THEN 0 ELSE 1
  IN  [r \in 1..Len(mx) |->
         IF r <= skip THEN mx[r]
         ELSE [c \in 1..w |-> v[(r - 1 - skip) * w + c]]]

RhoToVector(rho, SP0) == IF SP0 THEN rho ELSE Tail(rho)

\* gateset.to_vector(gates, G0, SPAM, SP0): SPAM vectors first, then gates
ToVector(gs, f) ==
  (IF f.SPAM
     THEN ConcatAll([k \in 1..Len(gs.rhoVecs) |-> RhoToVector(gs.rhoVecs[k], f.SP0)])
          \o ConcatAll(gs.EVecs)
     ELSE <<>>)
  \o ConcatAll([j \in 1..Len(GatesToInclude(f.gates)) |->
                  GateToVector(gs.gates[GatesToInclude(f.gates)[j]], f.G0)])

\* gateset.num_params(gates, G0, SPAM, SP0)
NumParams(gs, f) == Len(ToVector(gs, f))

\* the objects of the estimate in parameter order, each with its label and
\* the number of parameters it contributes under the flags
ObjectSizes(gs, f) ==
  [k \in 1..Len(gs.rhoVecs) |->
     [label |-> RhoLabel(k - 1),
      n |-> IF f.SPAM THEN Len(RhoToVector(gs.rhoVecs[k], f.SP0)) ELSE 0]]
  \o [k \in 1..Len(gs.EVecs) |->
     [label |-> ELabel(k - 1), n |-> IF f.SPAM THEN Len(gs.EVecs[k]) ELSE 0]]
  \o [j \in 1..Len(GateLabels) |->
     [label |-> GateLabels[j],
      n |-> IF GateLabels[j] \in SeqToSet(GatesToInclude(f.gates))
              THEN GateNumParams(gs.gates[GateLabels[j]], f.G0) ELSE 0]]

RECURSIVE SumN(_, _)
SumN(objs, upto) == IF upto = 0 THEN 0 ELSE SumN(objs, upto - 1) + objs[upto].n

\* gateset.get_vector_offsets(gates, G0, SPAM, SP0): label -> <<start, end>>,
\* a half-open range counted from 0
GetVectorOffsets(gs, f) ==
  LET objs == ObjectSizes(gs, f)
  IN  [l \in {objs[i].label : i \in 1..Len(objs)} |->
         LET i == CHOOSE i \in 1..Len(objs) : objs[i].label = l
         IN  <<SumN(objs, i - 1), SumN(objs, i)>>]

\* gateset.from_vector(v, gates, G0, SPAM, SP0)
FromVector(gs, v, f) ==
  LET off == GetVectorOffsets(gs, f)
      part(l) == SubSeq(v, off[l][1] + 1, off[l][2])
  IN  [gs EXCEPT
         !.rhoVecs = [k \in 1..Len(gs.rhoVecs) |->
                        IF ~f.SPAM THEN gs.rhoVecs[k]
                        ELSE IF f.SP0 THEN part(RhoLabel(k - 1))
                        ELSE <<gs.rhoVecs[k][1]>> \o part(RhoLabel(k - 1))],
         !.EVecs   = [k \in 1..Len(gs.EVecs) |->
                        IF f.SPAM THEN part(ELabel(k - 1)) ELSE gs.EVecs[k]],
         !.gates   = [l \in DOMAIN gs.gates |->
                        IF l \in SeqToSet(GatesToInclude(f.gates))
                          THEN GateFromVector(gs.gates[l], part(l), f.G0)
                          ELSE gs.gates[l]]]

\* gateset.get_nongauge_projector(...): the model takes projectors that are
\* diagonal with entries 0 and 1.  An estimate with nGauge gauge directions
\* has, without a mixing matrix (mix = 0), the projector that nulls the first
\* nGauge parameters; with mixing matrix number mix > 0 the null block is
\* moved up by mix places (cyclically): a projector of the same rank.
GetNongaugeProjector(n, nGauge, mix) ==
  Diag([i \in 1..n |->
          IF ((i - 1 - mix) % n) + 1 <= nGauge THEN Zero ELSE Int2F(1)])

\* faulty variant: the projector's dimension is taken for its rank
MatrixRankFull(P) == Len(P)

\* numpy.linalg.matrix_rank, on a diagonal matrix
MatrixRank(P) == Cardinality({i \in 1..Len(P) : ~IsZero(P[i][i])})

---------------------------------------------------------------------------
(* ConfidenceRegion.__init__                                               *)

LevelMin  == 0
LevelMax  == 1000
LevelWarn == 10

\* scipy.stats.chi2.ppf(confidenceLevel/100.0, dof), kept symbolic
Chi2Ppf(level, dof) == [p |-> level, dof |-> dof]

\* the stable ascending sort of 1..Len(keys) by key (Python's sorted, and the
\* ascending order numpy.linalg.eigh returns eigenvalues in)
SortPerm(keys) ==
  LET n == Len(keys)
      rank(i) == 1 + Cardinality({j \in 1..n :
                        \/ FLess(keys[j], keys[i])
                        \/ (~FLess(keys[i], keys[j]) /\ j < i)})
  IN  [pos \in 1..n |-> CHOOSE i \in 1..n : rank(i) = pos]

\* numpy.linalg.eigh of a diagonal matrix: the eigenvalues ascending, and the
\* eigenvectors (the columns of U) the unit vectors in that order
Eigh(Q) ==
  LET perm == SortPerm(DiagOf(Q))
      n == Len(Q)
  IN  [evals |-> [j \in 1..n |-> Q[perm[j]][perm[j]]],
       U |-> [i \in 1..n |-> [j \in 1..n |->
                IF i = perm[j] THEN Int2F(1) ELSE Zero]]]

\* faulty variant: the eigenvalues are ordered by value, not by magnitude
OrderIndsSigned(evals) == SortPerm(evals)

\* orderInds: the indices of the eigenvalues by ascending absolute value
OrderInds(evals) == SortPerm([i \in 1..Len(evals) |-> FAbs(evals[i])])

\* faulty variant: every eigenvalue is inverted, the gauge ones too
InvEvalsAll(evals, nGaugeParams) ==
  [i \in 1..Len(evals) |-> FDiv(Int2F(1), evals[i])]

\* invEvals: zero for the first nGaugeParams of orderInds, 1.0/eval for the rest
InvEvals(evals, nGaugeParams) ==
  LET orderInds == OrderInds(evals)
      inverted == {orderInds[p] : p \in (nGaugeParams + 1)..Len(evals)}
  IN  [i \in 1..Len(evals) |->
         IF i \in inverted THEN FDiv(Int2F(1), evals[i]) ELSE Zero]

\* profLCI[k] = sqrt(abs(invRegionQuadcForm[k,k]))
ProfLCIEntry(x) == SqrtOf(FAbs(x))

\* faulty variant: the bounds of the level are admitted
LevelOkInclusive(level) == level >= LevelMin /\ level <= LevelMax

\* faulty variant: a level below 1.0 is rejected instead of warned about
LevelOkAboveOne(level) == level >= LevelWarn /\ level < LevelMax

\* assert(confidenceLevel > 0.0 and confidenceLevel < 100.0)
LevelOk(level) == level > LevelMin /\ level < LevelMax

\* Lines 83-135: everything after the projection.  ref is the reference to
\* the estimate that the region stores, gs the estimate's value.
InitAfterProjection(ref, gs, projected_hessian, level, f, nNonGaugeParams, nGaugeParams) ==
  IF ~LevelOk(level)
    THEN [exc |-> "AssertionError", events |-> <<"assert_level">>, obj |-> <<>>]
  ELSE
    LET C1 == Chi2Ppf(level, 1)
        Ck == Chi2Ppf(level, nNonGaugeParams)
        eig == Eigh(projected_hessian)
        Udag == Transpose(eig.U)
        invEvals == InvEvals(eig.evals, nGaugeParams)
        invQ == Dot(eig.U, Dot(Diag(invEvals), Udag))
    IN  [exc |-> "none",
         events |-> <<"assert_level">>
                    \o (IF level < LevelWarn THEN <<"warn">> ELSE <<>>)
                    \o <<"chi2_ppf", "eigh", "invert">>,
         obj |-> << [nNonGaugeParams |-> nNonGaugeParams,
                     nGaugeParams |-> nGaugeParams,
                     regionQuadcForm |-> [mx |-> projected_hessian, over |-> C1],
                     intervalScaling |-> [sqrtOf |-> <<Ck, C1>>],
                     invRegionQuadcForm |-> [mx |-> invQ, times |-> C1],
                     invEvals |-> invEvals,
                     evals |-> eig.evals,
                     U |-> eig.U,
                     Udag |-> Udag,
                     gateset_paramFlags |-> f,
                     gateset_offsets |-> GetVectorOffsets(gs, f),
                     profLCI |-> [k \in 1..Len(eig.evals) |-> ProfLCIEntry(invQ[k][k])],
                     gateset |-> ref,
                     level |-> level] >>]

\* faulty variant: the slice includes the entry at index end
PySliceInclusive(seq, start, end) ==
  LET hi == IF end + 1 > Len(seq) THEN Len(seq) ELSE end + 1
  IN  IF start >= hi THEN <<>> ELSE SubSeq(seq, start + 1, hi)

\* Python's seq[start:end] for 0 <= start, end (indices past the end are clipped)
PySlice(seq, start, end) ==
  LET hi == IF end > Len(seq) THEN Len(seq) ELSE end
  IN  IF start >= hi THEN <<>> ELSE SubSeq(seq, start + 1, hi)

\* get_profile_likelihood_confidence_intervals(label); "None" stands for None
GetProfileLikelihoodConfidenceIntervals(self, label) ==
  IF label = "None" THEN self.profLCI
  ELSE PySlice(self.profLCI, self.gateset_offsets[label][1],
               self.gateset_offsets[label][2])

ModeEvent(mode) ==
  CASE mode = "none" -> "init_none"
    [] mode = "std" -> "init_std"
    [] mode = "optimal gate CIs" -> "init_optimal"
    [] OTHER -> "init_other"

RECURSIVE CRInit(_, _, _, _, _, _, _, _)

\* faulty variant: the candidate regions are built in the optimal mode
ObjectiveModeOptimal == "optimal gate CIs"

\* the hessianProjection argument objective_func constructs its regions with
ObjectiveMode == "none"

\* objective_func(vectorM); the mixing matrix is number mix
ObjectiveFunc(ref, gs, base_hessian, level, f, mix, min, stack) ==
  LET proj_extra == GetNongaugeProjector(Len(base_hessian), gs.nGauge, mix)
      projected_hessian_ex == Dot(proj_extra, Dot(base_hessian, proj_extra))
      ci == CRInit(ref, gs, projected_hessian_ex, level, f, ObjectiveMode, min, stack)
      ev == <<"objective">> \o ci.events
  IN  IF ci.exc # "none"
        THEN [exc |-> ci.exc, events |-> ev, value |-> SqrtOf(NaN)]
        ELSE LET gateCIs == ConcatAll([j \in 1..Len(GateLabels) |->
                              GetProfileLikelihoodConfidenceIntervals(ci.obj[1], GateLabels[j])])
             IN  [exc |-> "none", events |-> ev,
                  value |-> SqrtOf(FSum([k \in 1..Len(gateCIs) |-> gateCIs[k].rad]))]

\* _opt.minimize(objective_func, x0, ...): the minimizer (not among the
\* sources) evaluates the objective at the points min.cands in turn, the first
\* being x0 = 0, and ends - converged or at its caps - with minSol.x =
\* min.final.  An exception of the objective ends it.
RECURSIVE MinimizeFrom(_, _, _, _, _, _, _, _)
MinimizeFrom(ref, gs, base_hessian, level, f, min, stack, at) ==
  IF at > Len(min.cands)
    THEN [exc |-> "none", events |-> <<>>, x |-> min.final]
    ELSE LET o == ObjectiveFunc(ref, gs, base_hessian, level, f, min.cands[at], min, stack)
         IN  IF o.exc # "none"
               THEN [exc |-> o.exc, events |-> o.events, x |-> min.final]
               ELSE LET rest == MinimizeFrom(ref, gs, base_hessian, level, f, min, stack, at + 1)
                    IN  [rest EXCEPT !.events = o.events \o @]

\* faulty variant: a minimizer that has not converged is an error
OptProjectionForGateCIsChecked(ref, gs, base_hessian, level, f, min, stack) ==
  LET minSol == MinimizeFrom(ref, gs, base_hessian, level, f, min, stack, 1)
      proj_extra == GetNongaugeProjector(Len(base_hessian), gs.nGauge, minSol.x)
  IN  IF minSol.exc # "none" \/ ~min.converged
        THEN [exc |-> IF minSol.exc # "none" THEN minSol.exc ELSE "RuntimeError",
              events |-> <<"optimize">> \o minSol.events, value |-> <<>>]
        ELSE [exc |-> "none", events |-> <<"optimize">> \o minSol.events,
              value |-> Dot(proj_extra, Dot(base_hessian, proj_extra))]

\* _optProjectionForGateCIs
OptProjectionForGateCIs(ref, gs, base_hessian, level, f, min, stack) ==
  LET minSol == MinimizeFrom(ref, gs, base_hessian, level, f, min, stack, 1)
      proj_extra == GetNongaugeProjector(Len(base_hessian), gs.nGauge, minSol.x)
  IN  IF minSol.exc # "none"
        THEN [exc |-> minSol.exc, events |-> <<"optimize">> \o minSol.events,
              value |-> <<>>]
        ELSE [exc |-> "none",
              events |-> <<"optimize">> \o minSol.events
                         \o (IF min.converged THEN <<>> ELSE <<"not_converged">>),
              value |-> Dot(proj_extra, Dot(base_hessian, proj_extra))]

\* faulty variant: the standard mode leaves the Hessian unprojected
ProjectKnownUnprojected(ref, gs, hessian, level, f, mode, min, stack, proj_non_gauge) ==
  IF mode \in {"none", "std"} THEN [exc |-> "none", events |-> <<>>, value |-> hessian]
  ELSE IF stack = 0 THEN [exc |-> "RuntimeError", events |-> <<>>, value |-> <<>>]
  ELSE OptProjectionForGateCIs(ref, gs, hessian, level, f, min, stack - 1)

\* Lines 67-74: the projected Hessian in the three recognised modes.  stack
\* is the number of nested constructor calls the interpreter still allows.
ProjectKnown(ref, gs, hessian, level, f, mode, min, stack, proj_non_gauge) ==
  IF mode = "none" THEN [exc |-> "none", events |-> <<>>, value |-> hessian]
  ELSE IF mode = "std"
    THEN [exc |-> "none", events |-> <<"project">>,
          value |-> Dot(proj_non_gauge, Dot(hessian, proj_non_gauge))]
  ELSE IF stack = 0 THEN [exc |-> "RuntimeError", events |-> <<>>, value |-> <<>>]
  ELSE OptProjectionForGateCIs(ref, gs, hessian, level, f, min, stack - 1)

\* faulty variant: an unrecognised mode falls through with the Hessian as given
ProjectHessianLax(ref, gs, hessian, level, f, mode, min, stack, proj_non_gauge) ==
  IF mode \in {"none", "std", "optimal gate CIs"}
    THEN ProjectKnown(ref, gs, hessian, level, f, mode, min, stack, proj_non_gauge)
    ELSE [exc |-> "none", events |-> <<>>, value |-> hessian]

\* Lines 67-76: the if/elif chain on hessianProjection and its else branch
ProjectHessian(ref, gs, hessian, level, f, mode, min, stack, proj_non_gauge) ==
  IF mode \in {"none", "std", "optimal gate CIs"}
    THEN ProjectKnown(ref, gs, hessian, level, f, mode, min, stack, proj_non_gauge)
    ELSE [exc |-> "ValueError", events |-> <<"raise_ValueError">>, value |-> <<>>]

\* ConfidenceRegion.__init__
CRInit(ref, gs, hessian, level, f, mode, min, stack) ==
  LET proj_non_gauge == GetNongaugeProjector(NumParams(gs, f), gs.nGauge, 0)
      nNonGaugeParams == MatrixRank(proj_non_gauge)
      nGaugeParams == Len(hessian) - nNonGaugeParams
      ev == <<ModeEvent(mode), "get_nongauge_projector", "matrix_rank">>
      ph == ProjectHessian(ref, gs, hessian, level, f, mode, min, stack, proj_non_gauge)
      r == InitAfterProjection(ref, gs, ph.value, level, f, nNonGaugeParams, nGaugeParams)
  IN  IF ph.exc # "none"
        THEN [exc |-> ph.exc, events |-> ev \o ph.events, obj |-> <<>>]
        ELSE [r EXCEPT !.events = ev \o ph.events \o @]

---------------------------------------------------------------------------
(* The caller's functions.  A function descriptor fn says what the function *)
(* computes (kind) and what Python value it returns: a float, an int, or a  *)
(* numpy array of ndim dimensions (each of length 2) and dtype float64 or   *)
(* complex128.  Element e of an array is e times the scalar the kind        *)
(* defines; a complex element has (e+1) times that scalar as its imaginary  *)
(* part.                                                                    *)

RECURSIVE FoldSum(_)
FoldSum(xs) == IF xs = <<>> THEN 0 ELSE Head(xs) + FoldSum(Tail(xs))

RECURSIVE WeightedSum(_, _)
WeightedSum(xs, j) == IF j = 0 THEN 0 ELSE WeightedSum(xs, j - 1) + j * xs[j]

ScalarOf(fn, xs) ==
  IF fn.kind = "const" THEN 5 ELSE WeightedSum(xs, Len(xs))

RECURSIVE Pow2(_)
Pow2(n) == IF n = 0 THEN 1 ELSE 2 * Pow2(n - 1)

NumElems(fn) == IF fn.rtype = "ndarray" THEN Pow2(fn.ndim) ELSE 1

\* the value fn returns at the point whose entries are xs
Eval(fn, xs) ==
  [e \in 1..NumElems(fn) |->
     [re |-> Int2F(e * ScalarOf(fn, xs)),
      im |-> IF fn.rtype = "ndarray" /\ fn.dtype = "complex128"
               THEN Int2F((e + 1) * ScalarOf(fn, xs)) ELSE Zero]]

\* what the three kinds of function are handed
GateArg(mx) == Flatten(mx)
GatesetArg(gs) ==
  ConcatAll(gs.rhoVecs) \o ConcatAll(gs.EVecs)
  \o ConcatAll([j \in 1..Len(GateLabels) |-> Flatten(gs.gates[GateLabels[j]])])
\* get_evecs() appends the complement effect vector to EVecs
Complement(gs) ==
  [c \in 1..Len(gs.EVecs[1]) |->
     10 - FoldSum([k \in 1..Len(gs.EVecs) |-> gs.EVecs[k][c]])]
SpamArg(gs) == ConcatAll(gs.rhoVecs) \o ConcatAll(gs.EVecs) \o Complement(gs)

---------------------------------------------------------------------------
(* Objects and copies.  During a call the heap h holds the estimate the    *)
(* region refers to (h.est) and the working object the call creates        *)
(* (h.work): a gate, or a whole gate set.  A reference is "est" or "work". *)

NoObject == <<>>

\* self.gateset.get_gate(gateLabel).copy(): a new gate object
GateCopy(h, gsref, gateLabel) ==
  [h |-> [h EXCEPT !.work = h[gsref].gates[gateLabel]], ref |-> "work"]

GateRead(h, ref, gsref, gateLabel) ==
  IF ref = "work" THEN h.work ELSE h[gsref].gates[gateLabel]

GateWrite(h, ref, gsref, gateLabel, mx) ==
  IF ref = "work" THEN [h EXCEPT !.work = mx]
  ELSE [h EXCEPT ![gsref].gates[gateLabel] = mx]

\* faulty variant: no copy is made, the working reference is the estimate
GatesetCopyAlias(h, gsref) == [h |-> h, ref |-> gsref]

\* self.gateset.copy(): a new gate-set object
GatesetCopy(h, gsref) == [h |-> [h EXCEPT !.work = h[gsref]], ref |-> "work"]

\* vec.copy() followed by vecEps[idx] += eps (idx counted from 0): the copy is
\* changed, the vector it was copied from is not
VecEps(vec, idx, eps) == [vec EXCEPT ![idx + 1] = @ + eps]

SetRhovec(h, ref, vec, k) == [h EXCEPT ![ref].rhoVecs[k] = vec]
SetEvec(h, ref, vec, k) == [h EXCEPT ![ref].EVecs[k] = vec]

\* faulty variant: the perturbed vector is left in the working copy
RestoreRhovecSkipped(h, ref, rhoVec, k) == h

\* gsEps.set_rhovec( rhoVec.copy(), k ) after the loop over a vector's
\* parameters, and the same for an effect vector
RestoreRhovec(h, ref, rhoVec, k) == SetRhovec(h, ref, rhoVec, k)
RestoreEvec(h, ref, EVec, k) == SetEvec(h, ref, EVec, k)

---------------------------------------------------------------------------
(* _compute_df_from_gradF                                                  *)

\* gradF and f0 hold one [re, im] pair per element of the function's value
ZeroGrad(nParams, fn) ==
  [i \in 1..nParams |-> [e \in 1..NumElems(fn) |-> [re |-> Zero, im |-> Zero]]]

\* faulty variant: the difference is not divided by eps
GradEntryNoEps(val, f0, eps) ==
  [e \in 1..Len(f0) |->
     [re |-> FSub(val[e].re, f0[e].re), im |-> FSub(val[e].im, f0[e].im)]]

\* ( f(perturbed) - f0 ) / eps, element by element
GradEntry(val, f0, eps) ==
  [e \in 1..Len(f0) |->
     [re |-> FDiv(FSub(val[e].re, f0[e].re), Int2F(eps)),
      im |-> FDiv(FSub(val[e].im, f0[e].im), Int2F(eps))]]

\* faulty variant: the entry is stored one index too far
GradStoreShifted(gradF, idx, val) == [gradF EXCEPT ![idx + 2] = val]

\* gradF[idx] = val, idx counted from 0
GradStore(gradF, idx, val) == [gradF EXCEPT ![idx + 1] = val]

\* sqrt( abs( dot(g, dot(invRegionQuadcForm, g)) ) )
HalfWidth(invQ, g) == SqrtOf(FAbs(VDot(g, MatVec(invQ, g))))

\* faulty variant: three dimensions are let through
SupportedDimsUpTo3(fDims) == fDims \in {0, 1, 2, 3}

\* the fDims the branches at lines 422-436 and 441-457 handle
SupportedDims(fDims) == fDims \in {0, 1, 2}

\* df, or the ValueError of lines 438 and 459 with the fDims it names
DfOf(invQ, gradF, f0, fn) ==
  LET re(e) == [i \in 1..Len(gradF) |-> gradF[i][e].re]
      im(e) == [i \in 1..Len(gradF) |-> gradF[i][e].im]
      realDf == [e \in 1..Len(f0) |->
                   [re |-> HalfWidth(invQ, re(e)), im |-> SqrtOf(Zero)]]
      cplxDf == [e \in 1..Len(f0) |->
                   [re |-> HalfWidth(invQ, re(e)), im |-> HalfWidth(invQ, im(e))]]
  IN  IF fn.rtype = "float" THEN [exc |-> "none", excArg |-> 0, df |-> realDf]
      ELSE IF ~SupportedDims(fn.ndim)
        THEN [exc |-> "ValueError", excArg |-> fn.ndim, df |-> <<>>]
      ELSE IF fn.dtype = "complex128" THEN [exc |-> "none", excArg |-> 0, df |-> cplxDf]
      ELSE [exc |-> "none", excArg |-> 0, df |-> realDf]

NoRet == [tuple |-> FALSE, df |-> <<>>, f0 |-> <<>>]

\* faulty variant: df is kept in the region as its profile intervals
ComputeDfStoring(self, gradF, f0, fn, returnFnVal) ==
  LET d == DfOf(self.invRegionQuadcForm.mx, gradF, f0, fn)
  IN  [exc |-> d.exc, excArg |-> d.excArg,
       self |-> IF d.exc # "none" THEN self ELSE [self EXCEPT !.profLCI = d.df],
       ret |-> IF d.exc # "none" THEN NoRet
               ELSE [tuple |-> returnFnVal, df |-> d.df,
                     f0 |-> IF returnFnVal THEN f0 ELSE <<>>]]

\* faulty variant: the pair (df, f0) is returned whatever returnFnVal is
ComputeDfAlwaysPair(self, gradF, f0, fn, returnFnVal) ==
  LET d == DfOf(self.invRegionQuadcForm.mx, gradF, f0, fn)
  IN  [exc |-> d.exc, excArg |-> d.excArg, self |-> self,
       ret |-> IF d.exc # "none" THEN NoRet
               ELSE [tuple |-> TRUE, df |-> d.df, f0 |-> f0]]

\* return (df, f0) if returnFnVal else df; self is the region after the call
ComputeDfFromGradF(self, gradF, f0, fn, returnFnVal) ==
  LET d == DfOf(self.invRegionQuadcForm.mx, gradF, f0, fn)
  IN  [exc |-> d.exc, excArg |-> d.excArg, self |-> self,
       ret |-> IF d.exc # "none" THEN NoRet
               ELSE [tuple |-> returnFnVal, df |-> d.df,
                     f0 |-> IF returnFnVal THEN f0 ELSE <<>>]]

\* type(f0) == float, or else f0.shape and f0.dtype exist
HasShape(fn) == fn.rtype \in {"float", "ndarray"}

Failed(self, exc, h, log) ==
  [exc |-> exc, excArg |-> 0, self |-> self, ret |-> NoRet,
   h |-> h, log |-> log, gradF |-> <<>>]

Finish(self, st, f0, fn, returnFnVal) ==
  LET r == ComputeDfFromGradF(self, st.gradF, f0, fn, returnFnVal)
  IN  [exc |-> r.exc, excArg |-> r.excArg, self |-> r.self, ret |-> r.ret,
       h |-> st.h, log |-> st.log, gradF |-> st.gradF]

---------------------------------------------------------------------------
(* The three propagation operations.  Each yields the exception or the     *)
(* returned value, the heap it leaves, the points at which it evaluated    *)
(* the caller's function (log, in order) and the gradient.                 *)

\* faulty variant: the gates flag is not looked at
GateIsActiveAlways(gates, gateLabel) == TRUE

\* gates == True or (type(gates) in (list,tuple) and gateLabel in gates)
GateIsActive(gates, gateLabel) ==
  \/ (gates.tag = "bool" /\ gates.val)
  \/ (gates.tag = "list" /\ gateLabel \in SeqToSet(gates.labels))

GetGateFnConfidenceInterval(self, h0, fn, gateLabel, eps, returnFnVal) ==
  LET f == self.gateset_paramFlags
      nParams == NumParams(h0[self.gateset], f)
      gateMx == h0[self.gateset].gates[gateLabel]
      cp == GateCopy(h0, self.gateset, gateLabel)
      gateObj == cp.ref
      gpo == self.gateset_offsets[gateLabel][1]
      f0 == Eval(fn, GateArg(gateMx))
      nGateParams == GateNumParams(GateRead(cp.h, gateObj, self.gateset, gateLabel), f.G0)
      gateVec0 == GateToVector(GateRead(cp.h, gateObj, self.gateset, gateLabel), f.G0)
      Step(st, i) ==
        LET gateVec == VecEps(gateVec0, i, eps)
            h1 == GateWrite(st.h, gateObj, self.gateset, gateLabel,
                    GateFromVector(GateRead(st.h, gateObj, self.gateset, gateLabel),
                                   gateVec, f.G0))
            arg == GateArg(GateRead(h1, gateObj, self.gateset, gateLabel))
        IN  [h |-> h1,
             gradF |-> GradStore(st.gradF, gpo + i, GradEntry(Eval(fn, arg), f0, eps)),
             log |-> Append(st.log, arg)]
      \* for i in range(nGateParams)
      RECURSIVE Loop(_, _)
      Loop(st, i) == IF i >= nGateParams THEN st ELSE Loop(Step(st, i), i + 1)
      st0 == [h |-> cp.h, gradF |-> ZeroGrad(nParams, fn), log |-> <<GateArg(gateMx)>>]
  IN  IF ~HasShape(fn) THEN Failed(self, "AttributeError", cp.h, st0.log)
      ELSE Finish(self,
                  IF GateIsActive(f.gates, gateLabel)
                    THEN Loop(st0, 0) ELSE st0,
                  f0, fn, returnFnVal)

GetGatesetFnConfidenceInterval(self, h0, fn, eps, returnFnVal) ==
  LET f == self.gateset_paramFlags
      nParams == NumParams(h0[self.gateset], f)
      cp == GatesetCopy(h0, self.gateset)
      gateset == cp.ref
      f0 == Eval(fn, GatesetArg(cp.h[gateset]))
      gatesetVec0 == ToVector(cp.h[gateset], f)
      Step(st, i) ==
        LET gatesetVec == VecEps(gatesetVec0, i, eps)
            h1 == [st.h EXCEPT ![gateset] = FromVector(st.h[gateset], gatesetVec, f)]
            arg == GatesetArg(h1[gateset])
        IN  [h |-> h1,
             gradF |-> GradStore(st.gradF, i, GradEntry(Eval(fn, arg), f0, eps)),
             log |-> Append(st.log, arg)]
      \* for i in range(nParams)
      RECURSIVE Loop(_, _)
      Loop(st, i) == IF i >= nParams THEN st ELSE Loop(Step(st, i), i + 1)
      st0 == [h |-> cp.h, gradF |-> ZeroGrad(nParams, fn),
              log |-> <<GatesetArg(cp.h[gateset])>>]
  IN  IF Len(gatesetVec0) # nParams THEN Failed(self, "AssertionError", cp.h, st0.log)
      ELSE IF ~HasShape(fn) THEN Failed(self, "AttributeError", cp.h, st0.log)
      ELSE Finish(self, Loop(st0, 0), f0, fn, returnFnVal)

\* nRhoParams = len(rhoVec) if SP0 else len(rhoVec)-1
nRhoParams(rhoVec, SP0) == IF SP0 THEN Len(rhoVec) ELSE Len(rhoVec) - 1

\* faulty variant: the first element is perturbed whatever SP0 says
mRhoZero(SP0) == 0

\* m = 0 if SP0 else 1: the (0-based) first perturbed element of a vector
mRho(SP0) == IF SP0 THEN 0 ELSE 1

GetSpamFnConfidenceInterval(self, h0, fn, eps, returnFnVal) ==
  LET f == self.gateset_paramFlags
      nParams == NumParams(h0[self.gateset], f)
      f0 == Eval(fn, SpamArg(h0[self.gateset]))
      cp == GatesetCopy(h0, self.gateset)
      gsEps == cp.ref
      eval(st, off, i) ==
        [h |-> st.h,
         gradF |-> GradStore(st.gradF, off + i,
                             GradEntry(Eval(fn, SpamArg(st.h[gsEps])), f0, eps)),
         log |-> Append(st.log, SpamArg(st.h[gsEps]))]
      RhoBlock(st, k) ==
        LET rhoVec == st.h[self.gateset].rhoVecs[k + 1]
            m == mRho(f.SP0)
            off == self.gateset_offsets[RhoLabel(k)][1]
            Step(s, i) ==
              eval([s EXCEPT !.h = SetRhovec(s.h, gsEps, VecEps(rhoVec, m + i, eps), k + 1)],
                   off, i)
            RECURSIVE Loop(_, _)
            Loop(s, i) == IF i >= nRhoParams(rhoVec, f.SP0) THEN s ELSE Loop(Step(s, i), i + 1)
            after == Loop(st, 0)
        IN  [after EXCEPT !.h = RestoreRhovec(after.h, gsEps, rhoVec, k + 1)]
      EBlock(st, k) ==
        LET EVec == st.h[self.gateset].EVecs[k + 1]
            nEParams == Len(EVec)
            off == self.gateset_offsets[ELabel(k)][1]
            Step(s, i) ==
              eval([s EXCEPT !.h = SetEvec(s.h, gsEps, VecEps(EVec, i, eps), k + 1)],
                   off, i)
            RECURSIVE Loop(_, _)
            Loop(s, i) == IF i >= nEParams THEN s ELSE Loop(Step(s, i), i + 1)
            after == Loop(st, 0)
        IN  [after EXCEPT !.h = RestoreEvec(after.h, gsEps, EVec, k + 1)]
      \* for k, rhoVec in enumerate(rhoVecs), then for k, EVec in enumerate(EVecs)
      RECURSIVE RhoLoop(_, _), ELoop(_, _)
      RhoLoop(st, k) ==
        IF k >= Len(h0[self.gateset].rhoVecs) THEN st ELSE RhoLoop(RhoBlock(st, k), k + 1)
      ELoop(st, k) ==
        IF k >= Len(h0[self.gateset].EVecs) THEN st ELSE ELoop(EBlock(st, k), k + 1)
      st0 == [h |-> h0, gradF |-> ZeroGrad(nParams, fn),
              log |-> <<SpamArg(h0[self.gateset])>>]
      st1 == [st0 EXCEPT !.h = cp.h]
  IN  IF ~HasShape(fn) THEN Failed(self, "AttributeError", h0, st0.log)
      ELSE Finish(self,
                  IF f.SPAM
                    THEN ELoop(RhoLoop(st1, 0), 0)
                    ELSE st0,
                  f0, fn, returnFnVal)

---------------------------------------------------------------------------
(* The propagation operations step by step, for calls that interleave: the *)
(* part of an operation before its loops (Begin), one iteration of its     *)
(* loops (Step), and the return through _compute_df_from_gradF.  A call    *)
(* works on a heap h of the estimate (est) and its own working object      *)
(* (work), as the operations above do.                                     *)

\* lines 239-257: the per-gate operation up to its loop; n is the number of
\* iterations the loop will make
GateCallBegin(self, h0, fn, gateLabel, eps) ==
  LET f == self.gateset_paramFlags
      nParams == NumParams(h0[self.gateset], f)
      gateMx == h0[self.gateset].gates[gateLabel]
      cp == GateCopy(h0, self.gateset, gateLabel)
      gateObj == cp.ref
      nGateParams == GateNumParams(GateRead(cp.h, gateObj, self.gateset, gateLabel), f.G0)
  IN  [h |-> cp.h, ref |-> gateObj,
       f0 |-> Eval(fn, GateArg(gateMx)),
       vec0 |-> GateToVector(GateRead(cp.h, gateObj, self.gateset, gateLabel), f.G0),
       n |-> IF HasShape(fn) /\ GateIsActive(f.gates, gateLabel) THEN nGateParams ELSE 0,
       gradF |-> IF HasShape(fn) THEN ZeroGrad(nParams, fn) ELSE <<>>,
       log |-> <<GateArg(gateMx)>>,
       exc |-> IF HasShape(fn) THEN "none" ELSE "AttributeError"]

\* lines 258-260: iteration c.i of the per-gate loop
GateCallStep(self, h, c) ==
  LET f == self.gateset_paramFlags
      gpo == self.gateset_offsets[c.label][1]
      gateVec == VecEps(c.vec0, c.i, c.eps)
      h1 == GateWrite(h, c.ref, self.gateset, c.label,
              GateFromVector(GateRead(h, c.ref, self.gateset, c.label), gateVec, f.G0))
      arg == GateArg(GateRead(h1, c.ref, self.gateset, c.label))
  IN  [h |-> h1,
       gradF |-> GradStore(c.gradF, gpo + c.i, GradEntry(Eval(c.fn, arg), c.f0, c.eps)),
       log |-> Append(c.log, arg)]

\* lines 298-313: the per-gate-set operation up to its loop
GatesetCallBegin(self, h0, fn, eps) ==
  LET f == self.gateset_paramFlags
      nParams == NumParams(h0[self.gateset], f)
      cp == GatesetCopy(h0, self.gateset)
      gateset == cp.ref
      gatesetVec0 == ToVector(cp.h[gateset], f)
      exc == IF Len(gatesetVec0) # nParams THEN "AssertionError"
             ELSE IF ~HasShape(fn) THEN "AttributeError" ELSE "none"
  IN  [h |-> cp.h, ref |-> gateset,
       f0 |-> Eval(fn, GatesetArg(cp.h[gateset])),
       vec0 |-> gatesetVec0,
       n |-> IF exc = "none" THEN nParams ELSE 0,
       gradF |-> IF exc = "none" THEN ZeroGrad(nParams, fn) ELSE <<>>,
       log |-> <<GatesetArg(cp.h[gateset])>>,
       exc |-> exc]

\* lines 314-317: iteration c.i of the per-gate-set loop
GatesetCallStep(self, h, c) ==
  LET f == self.gateset_paramFlags
      gatesetVec == VecEps(c.vec0, c.i, c.eps)
      h1 == [h EXCEPT ![c.ref] = FromVector(h[c.ref], gatesetVec, f)]
      arg == GatesetArg(h1[c.ref])
  IN  [h |-> h1,
       gradF |-> GradStore(c.gradF, c.i, GradEntry(Eval(c.fn, arg), c.f0, c.eps)),
       log |-> Append(c.log, arg)]

\* the iterations of the loops of lines 373-389 in order: vector k
\* (0-based), index i, and whether it is the last of its vector
SpamTasks(gs, f) ==
  ConcatAll([k \in 1..Len(gs.rhoVecs) |->
               [i \in 1..nRhoParams(gs.rhoVecs[k], f.SP0) |->
                  [kind |-> "rho", k |-> k - 1, i |-> i - 1,
                   last |-> i = nRhoParams(gs.rhoVecs[k], f.SP0)]]])
  \o ConcatAll([k \in 1..Len(gs.EVecs) |->
                  [i \in 1..Len(gs.EVecs[k]) |->
                     [kind |-> "E", k |-> k - 1, i |-> i - 1,
                      last |-> i = Len(gs.EVecs[k])]]])

\* the per-SPAM operation up to its loops, cp being what stands for
\* self.gateset.copy()
SpamCallBeginWith(self, h0, fn, eps, cp) ==
  LET f == self.gateset_paramFlags
      nParams == NumParams(h0[self.gateset], f)
      copied == HasShape(fn) /\ f.SPAM
  IN  [h |-> IF copied THEN cp.h ELSE h0,
       ref |-> IF copied THEN cp.ref ELSE "none",
       f0 |-> Eval(fn, SpamArg(h0[self.gateset])),
       vec0 |-> <<>>,
       n |-> IF copied THEN Len(SpamTasks(h0[self.gateset], f)) ELSE 0,
       gradF |-> IF HasShape(fn) THEN ZeroGrad(nParams, fn) ELSE <<>>,
       log |-> <<SpamArg(h0[self.gateset])>>,
       exc |-> IF HasShape(fn) THEN "none" ELSE "AttributeError"]

\* faulty variant: gsEps is the region's gate set itself, not a copy of it
SpamCallBeginNoCopy(self, h0, fn, eps) ==
  SpamCallBeginWith(self, h0, fn, eps, [h |-> h0, ref |-> self.gateset])

\* lines 355-370: the per-SPAM operation up to its loops
SpamCallBegin(self, h0, fn, eps) ==
  SpamCallBeginWith(self, h0, fn, eps, GatesetCopy(h0, self.gateset))

\* lines 377-380 and 386-389: iteration number c.i of the per-SPAM loops
\* and, after the last iteration over a vector, the vector put back
SpamCallStep(self, h, c) ==
  LET f == self.gateset_paramFlags
      task == SpamTasks(h[self.gateset], f)[c.i + 1]
      isRho == task.kind = "rho"
      vec == IF isRho THEN h[self.gateset].rhoVecs[task.k + 1]
                      ELSE h[self.gateset].EVecs[task.k + 1]
      off == self.gateset_offsets[IF isRho THEN RhoLabel(task.k) ELSE ELabel(task.k)][1]
      vecEps == IF isRho THEN VecEps(vec, mRho(f.SP0) + task.i, c.eps)
                         ELSE VecEps(vec, task.i, c.eps)
      h1 == IF isRho THEN SetRhovec(h, c.ref, vecEps, task.k + 1)
                     ELSE SetEvec(h, c.ref, vecEps, task.k + 1)
      arg == SpamArg(h1[c.ref])
      h2 == IF ~task.last THEN h1
            ELSE IF isRho THEN RestoreRhovec(h1, c.ref, vec, task.k + 1)
                          ELSE RestoreEvec(h1, c.ref, vec, task.k + 1)
  IN  [h |-> h2,
       gradF |-> GradStore(c.gradF, off + task.i, GradEntry(Eval(c.fn, arg), c.f0, c.eps)),
       log |-> Append(c.log, arg)]

CallBegin(self, h0, op, fn, label, eps) ==
  CASE op = "get_gate_fn_confidence_interval" -> GateCallBegin(self, h0, fn, label, eps)
    [] op = "get_gateset_fn_confidence_interval" -> GatesetCallBegin(self, h0, fn, eps)
    [] OTHER -> SpamCallBegin(self, h0, fn, eps)

CallStep(self, h, c) ==
  CASE c.op = "get_gate_fn_confidence_interval" -> GateCallStep(self, h, c)
    [] c.op = "get_gateset_fn_confidence_interval" -> GatesetCallStep(self, h, c)
    [] OTHER -> SpamCallStep(self, h, c)

\* the return of a call: the exception met before the loops, or
\* _compute_df_from_gradF
CallReturn(self, h, c) ==
  IF c.exc # "none" THEN Failed(self, c.exc, h, c.log)
  ELSE Finish(self, [h |-> h, gradF |-> c.gradF, log |-> c.log], c.f0, c.fn, c.rv)

---------------------------------------------------------------------------
(* The state machine: a caller constructs one region over its estimate and *)
(* then queries it.  estimate is the caller's gate-set object (the object  *)
(* the region's gateset attribute refers to); region is <<>> until a       *)
(* construction has returned an object; built is what construction left    *)
(* (the region and the estimate at that moment); last is the operation     *)
(* that ran last and what came of it.  After an operation the caller takes *)
(* the result (Take) before it calls again.  calls holds, for each thread, *)
(* the propagation call it is in when calls interleave.  proto is the      *)
(* state of the protocol objects (protocols/protocol.py), modelled at the  *)
(* end of the module.                                                      *)

VARIABLES estimate, region, built, last, calls, proto

vars == <<estimate, region, built, last, calls, proto>>

\* bounds of the model
MaxStack == 2
MaxMix == 1
MaxNDim == 3
MaxEps == 2

Idle == [op |-> "none", args |-> <<>>, exc |-> "none", excArg |-> 0, ret |-> <<>>,
         events |-> <<>>, log |-> <<>>, gradF |-> <<>>]

\* no ProtocolData object has been constructed
NoProtocolData == <<>>

\* the threads that call the propagation operations of one region
Threads == {1, 2}

\* a thread that has made no call
NoCall ==
  [pc |-> "idle", op |-> "none", fn |-> <<>>, label |-> "None", eps |-> 0, rv |-> FALSE,
   work |-> NoObject, ref |-> "none", f0 |-> <<>>, vec0 |-> <<>>, n |-> 0, i |-> 0,
   gradF |-> <<>>, log |-> <<>>, exc |-> "none", excArg |-> 0, ret |-> NoRet,
   overlapped |-> FALSE]

\* parameterization flags the model constructs regions with
FlagSets ==
  { [gates |-> GatesTrue, G0 |-> FALSE, SPAM |-> TRUE, SP0 |-> TRUE],
    [gates |-> GatesList(<<"Gx">>), G0 |-> FALSE, SPAM |-> TRUE, SP0 |-> TRUE],
    [gates |-> GatesTrue, G0 |-> TRUE, SPAM |-> FALSE, SP0 |-> TRUE],
    [gates |-> GatesFalse, G0 |-> TRUE, SPAM |-> TRUE, SP0 |-> FALSE],
    [gates |-> GatesList(<<"Gy">>), G0 |-> TRUE, SPAM |-> TRUE, SP0 |-> FALSE] }

\* diagonal Hessians of dimension n: the toy Hessian diag(1, 1, 100, ...), the
\* zero matrix, one with a negative eigenvalue, one whose last eigenvalue is 0
HessianPatterns == {"toy", "zero", "neg", "sing"}

HessianOf(pattern, n) ==
  Diag([i \in 1..n |->
          CASE pattern = "toy"  -> IF i <= 2 THEN Int2F(1) ELSE Int2F(100)
            [] pattern = "zero" -> Zero
            [] pattern = "neg"  -> IF i = n THEN Int2F(-4) ELSE Int2F(2 * i)
            [] OTHER            -> IF i = n THEN Zero ELSE Int2F(2)])

\* confidence levels, in tenths of a percent
Levels == {-50, 0, 5, 950, 1000, 1200}

Modes == {"none", "std", "optimal gate CIs", "bogus"}

\* what the minimizer does when it is run
Minimizers ==
  { m \in [cands : {<<0>>} \cup {<<0, x>> : x \in 1..MaxMix},
           final : 0..MaxMix, converged : BOOLEAN] :
      m.final \in SeqToSet(m.cands) }

NoMinimizer == [cands |-> <<0>>, final |-> 0, converged |-> TRUE]

Init ==
  /\ estimate \in {Estimate0(g) : g \in {0, 2}}
  /\ region = <<>>
  /\ built = <<>>
  /\ last = Idle
  /\ calls = [t \in Threads |-> NoCall]
  /\ proto = NoProtocolData

\* ConfidenceRegion(estimate, hessian, level, gates, G0, SPAM, SP0, mode)
Construct(f, pattern, level, mode, min) ==
  /\ region = <<>>
  /\ last.op = "none"
  /\ \E hessian \in {HessianOf(pattern, NumParams(estimate, f))} :
       \E r \in {CRInit("est", estimate, hessian, level, f, mode, min, MaxStack)} :
         /\ region' = r.obj
         /\ built' = IF r.exc = "none"
                       THEN <<[region |-> r.obj[1], estimate |-> estimate,
                               hessian |-> hessian]>>
                       ELSE <<>>
         /\ last' = [Idle EXCEPT !.op = "init", !.exc = r.exc, !.events = r.events,
                       !.args = [hessian |-> hessian, level |-> level, f |-> f,
                                 mode |-> mode, min |-> min]]
  /\ UNCHANGED <<estimate, calls, proto>>

\* the caller takes the result of the last operation
Take ==
  /\ last.op # "none"
  /\ region # <<>>
  /\ last' = Idle
  /\ UNCHANGED <<estimate, region, built, calls, proto>>

Ready == region # <<>> /\ last.op = "none"

\* get_gateset()
GetGateset ==
  /\ Ready
  /\ last' = [Idle EXCEPT !.op = "get_gateset", !.ret = region[1].gateset]
  /\ UNCHANGED <<estimate, region, built, calls, proto>>

\* get_parameterization_flags()
GetParameterizationFlags ==
  /\ Ready
  /\ last' = [Idle EXCEPT !.op = "get_parameterization_flags",
                          !.ret = region[1].gateset_paramFlags]
  /\ UNCHANGED <<estimate, region, built, calls, proto>>

\* get_profile_likelihood_confidence_intervals(label)
GetProfLCI(label) ==
  /\ Ready
  /\ last' = [Idle EXCEPT !.op = "get_profile_likelihood_confidence_intervals",
                          !.args = [label |-> label],
                          !.ret = GetProfileLikelihoodConfidenceIntervals(region[1], label)]
  /\ UNCHANGED <<estimate, region, built, calls, proto>>

Labels == {"rho0", "E0", "Gx", "Gy"}

\* the functions callers pass
FnSet ==
  { [kind |-> k, rtype |-> t, ndim |-> 0, dtype |-> "float64"] :
      k \in {"const", "linear"}, t \in {"float", "int"} }
  \cup
  { [kind |-> k, rtype |-> "ndarray", ndim |-> n, dtype |-> d] :
      k \in {"const", "linear"}, n \in 0..MaxNDim, d \in {"float64", "complex128"} }

\* one of the three propagation operations has run with result r
Propagated(op, args, r) ==
  /\ estimate' = r.h.est
  /\ region' = <<r.self>>
  /\ last' = [op |-> op, args |-> args, exc |-> r.exc, excArg |-> r.excArg, ret |-> r.ret,
              events |-> <<>>, log |-> r.log, gradF |-> r.gradF]
  /\ UNCHANGED <<built, calls, proto>>

Heap == [est |-> estimate, work |-> NoObject]

GateFn(fn, gateLabel, eps, returnFnVal) ==
  /\ Ready
  /\ \E r \in {GetGateFnConfidenceInterval(region[1], Heap, fn, gateLabel, eps, returnFnVal)} :
       Propagated("get_gate_fn_confidence_interval",
                  [fn |-> fn, label |-> gateLabel, eps |-> eps, returnFnVal |-> returnFnVal], r)

GatesetFn(fn, eps, returnFnVal) ==
  /\ Ready
  /\ \E r \in {GetGatesetFnConfidenceInterval(region[1], Heap, fn, eps, returnFnVal)} :
       Propagated("get_gateset_fn_confidence_interval",
                  [fn |-> fn, label |-> "None", eps |-> eps, returnFnVal |-> returnFnVal], r)

SpamFn(fn, eps, returnFnVal) ==
  /\ Ready
  /\ \E r \in {GetSpamFnConfidenceInterval(region[1], Heap, fn, eps, returnFnVal)} :
       Propagated("get_spam_fn_confidence_interval",
                  [fn |-> fn, label |-> "None", eps |-> eps, returnFnVal |-> returnFnVal], r)

\* the modes that run no minimizer
ConstructDirect ==
  \E f \in FlagSets, pattern \in HessianPatterns, level \in Levels,
     mode \in Modes \ {"optimal gate CIs"} :
    Construct(f, pattern, level, mode, NoMinimizer)

ConstructOptimal ==
  \E f \in FlagSets, pattern \in HessianPatterns, level \in Levels, min \in Minimizers :
    Construct(f, pattern, level, "optimal gate CIs", min)

ConstructAny == ConstructDirect \/ ConstructOptimal

ConstructForQueries ==
  \E f \in FlagSets, pattern \in HessianPatterns, mode \in {"none", "std"} :
    Construct(f, pattern, 950, mode, NoMinimizer)

Getters ==
  \/ GetGateset
  \/ GetParameterizationFlags
  \/ \E label \in Labels \cup {"None"} : GetProfLCI(label)

Propagations ==
  \/ \E fn \in FnSet, eps \in 1..MaxEps, rv \in BOOLEAN : GatesetFn(fn, eps, rv)
  \/ \E fn \in FnSet, l \in SeqToSet(GateLabels), eps \in 1..MaxEps, rv \in BOOLEAN :
       GateFn(fn, l, eps, rv)
  \/ \E fn \in FnSet, eps \in 1..MaxEps, rv \in BOOLEAN : SpamFn(fn, eps, rv)

\* the functions the interleaved calls pass
FnCalls ==
  { [kind |-> "linear", rtype |-> "ndarray", ndim |-> 1, dtype |-> "float64"],
    [kind |-> "const", rtype |-> "int", ndim |-> 0, dtype |-> "float64"] }

\* the heap as thread t sees it: the estimate and t's own working object
HeapOf(t) == [est |-> estimate, work |-> calls[t].work]

\* thread t calls a propagation operation and runs it up to its loops
BeginCall(t, op, fn, label, eps, rv) ==
  /\ Ready
  /\ calls[t].pc = "idle"
  /\ \E b \in {CallBegin(region[1], HeapOf(t), op, fn, label, eps)} :
       /\ estimate' = b.h.est
       /\ calls' = [calls EXCEPT ![t] =
                      [pc |-> "run", op |-> op, fn |-> fn, label |-> label, eps |-> eps,
                       rv |-> rv, work |-> b.h.work, ref |-> b.ref, f0 |-> b.f0,
                       vec0 |-> b.vec0, n |-> b.n, i |-> 0, gradF |-> b.gradF,
                       log |-> b.log, exc |-> b.exc, excArg |-> 0, ret |-> NoRet,
                       overlapped |-> FALSE]]
  /\ UNCHANGED <<region, built, last, proto>>

\* another thread is in the middle of its loops
OtherInLoop(t) ==
  \E u \in Threads \ {t} : calls[u].pc = "run" /\ calls[u].i > 0 /\ calls[u].i < calls[u].n

\* thread t makes one iteration of the loops of its call
StepCall(t) ==
  /\ calls[t].pc = "run"
  /\ calls[t].i < calls[t].n
  /\ \E r \in {CallStep(region[1], HeapOf(t), calls[t])} :
       /\ estimate' = r.h.est
       /\ calls' = [calls EXCEPT ![t].work = r.h.work, ![t].gradF = r.gradF,
                                 ![t].log = r.log, ![t].i = @ + 1,
                                 ![t].overlapped = @ \/ OtherInLoop(t)]
  /\ UNCHANGED <<region, built, last, proto>>

\* thread t's call returns
EndCall(t) ==
  /\ calls[t].pc = "run"
  /\ calls[t].i = calls[t].n
  /\ \E r \in {CallReturn(region[1], HeapOf(t), calls[t])} :
       /\ region' = <<r.self>>
       /\ calls' = [calls EXCEPT ![t].pc = "done", ![t].exc = r.exc,
                                 ![t].excArg = r.excArg, ![t].ret = r.ret,
                                 ![t].gradF = r.gradF]
  /\ UNCHANGED <<estimate, built, last, proto>>

ConstructForCalls ==
  \E f \in FlagSets : Construct(f, "toy", 950, "std", NoMinimizer)

CallOps ==
  {<<"get_gateset_fn_confidence_interval", "None">>,
   <<"get_spam_fn_confidence_interval", "None">>}
  \cup {<<"get_gate_fn_confidence_interval", l>> : l \in SeqToSet(GateLabels)}

\* a region is constructed, then each thread calls one propagation operation
\* on it, the steps of the calls interleaving in any order
NextCalls ==
  \/ ConstructForCalls
  \/ Take
  \/ \E t \in Threads, o \in CallOps, fn \in FnCalls, eps \in 1..MaxEps :
       BeginCall(t, o[1], fn, o[2], eps, TRUE)
  \/ \E t \in Threads : StepCall(t)
  \/ \E t \in Threads : EndCall(t)

SpecCalls == Init /\ [][NextCalls]_vars

\* construction with any arguments, then the getters
Next == ConstructAny \/ Getters \/ Take

Spec == Init /\ [][Next]_vars

\* construction with valid arguments, then every query
NextProp == ConstructForQueries \/ Getters \/ Propagations \/ Take

SpecProp == Init /\ [][NextProp]_vars

---------------------------------------------------------------------------
(* Properties of construction (checked under Spec).                        *)

KnownModes == {"none", "std", "optimal gate CIs"}

Constructed == last.op = "init"

\* events holds e
Happened(e) == e \in SeqToSet(last.events)

\* the last n events
LastEvents(n) ==
  IF Len(last.events) < n THEN <<>>
  ELSE SubSeq(last.events, Len(last.events) - n + 1, Len(last.events))

\* C1: construction with a projection mode that is none of "std", "none" and
\* "optimal gate CIs" raises ValueError, leaves no region, and raises before
\* any eigendecomposition (and before the level is looked at).
C1_InvalidModeRaises ==
  (Constructed /\ last.args.mode \notin KnownModes)
    => /\ last.exc = "ValueError"
       /\ region = <<>> /\ built = <<>>
       /\ ~Happened("eigh") /\ ~Happened("assert_level")
       /\ LastEvents(1) = <<"raise_ValueError">>

C1_Witness ==
  /\ Constructed /\ last.args.mode = "bogus" /\ last.exc = "ValueError"
  /\ last.args.level = 950

\* C2: in every projection mode a level that is not strictly between 0 and
\* 100 - the values 0 and 100 included - ends construction with a failed
\* assertion; no region is returned.  (With an unrecognised mode construction
\* has failed already, with ValueError.)
C2_LevelOutOfRangeFails ==
  (Constructed /\ ~(last.args.level > 0 /\ last.args.level < 1000))
    => /\ last.exc # "none"
       /\ region = <<>> /\ built = <<>>
       /\ ~Happened("eigh")
       /\ last.args.mode \in KnownModes
            => (last.exc = "AssertionError" /\ LastEvents(1) = <<"assert_level">>)

C2_Witness ==
  /\ Constructed /\ last.args.mode = "optimal gate CIs" /\ last.args.level = 1000
  /\ last.exc = "AssertionError"

\* C3: a level strictly between 0 and 1.0 is not rejected: construction (in a
\* recognised mode) warns, goes on through the eigendecomposition and the
\* inversion, and returns a region that stores the level as supplied.
C3_SmallLevelWarns ==
  (Constructed /\ last.args.mode \in KnownModes
     /\ last.args.level > 0 /\ last.args.level < 10)
    => /\ last.exc = "none"
       /\ region # <<>>
       /\ region[1].level = last.args.level
       /\ LastEvents(5) = <<"assert_level", "warn", "chi2_ppf", "eigh", "invert">>

C3_Witness ==
  /\ Constructed /\ last.args.level = 5 /\ last.args.mode = "std"
  /\ last.exc = "none" /\ Happened("warn") /\ region # <<>> /\ region[1].level = 5

---------------------------------------------------------------------------
(* Properties of the queries (checked under SpecProp, C7 under Spec too).   *)

PropagationOps ==
  {"get_gate_fn_confidence_interval", "get_gateset_fn_confidence_interval",
   "get_spam_fn_confidence_interval"}

Propagating == last.op \in PropagationOps

\* C4: whatever queries have run since construction, the region's quadratic
\* form, its inverse, the profile intervals, the interval scaling, the flags,
\* the offsets and the level (and every other attribute) are what
\* construction left.
C4_QueriesLeaveRegion ==
  region # <<>>
    => /\ region[1].regionQuadcForm = built[1].region.regionQuadcForm
       /\ region[1].invRegionQuadcForm = built[1].region.invRegionQuadcForm
       /\ region[1].profLCI = built[1].region.profLCI
       /\ region[1].intervalScaling = built[1].region.intervalScaling
       /\ region[1].gateset_paramFlags = built[1].region.gateset_paramFlags
       /\ region[1].gateset_offsets = built[1].region.gateset_offsets
       /\ region[1].level = built[1].region.level
       /\ region[1] = built[1].region

C4_Witness ==
  /\ last.op = "get_gateset_fn_confidence_interval" /\ last.exc = "none"
  /\ last.args.fn.kind = "linear"
  /\ ~RootIsZero(last.ret.df[1].re)
  /\ region[1] = built[1].region

\* C5: the propagation operations leave the estimate the region refers to as
\* it was at construction: the points they evaluate at are made on a copy.
C5_EstimateUnchanged ==
  built # <<>> => estimate = built[1].estimate

C5_Witness ==
  /\ last.op = "get_gateset_fn_confidence_interval" /\ last.exc = "none"
  /\ Len(last.log) > 1
  /\ \A j \in 2..Len(last.log) : last.log[j] # GatesetArg(estimate)
  /\ estimate = built[1].estimate

\* C6: get_profile_likelihood_confidence_intervals without a label returns
\* the whole vector, one entry per row of the Hessian; with a label it returns
\* the entries at (0-based) indices start .. end-1 of that object's offsets,
\* in order.
C6_ProfileIntervalsSlice ==
  last.op = "get_profile_likelihood_confidence_intervals"
    => LET self == region[1]
           label == last.args.label
       IN  IF label = "None"
             THEN /\ last.ret = self.profLCI
                  /\ Len(last.ret) = Len(built[1].hessian)
             ELSE LET start == self.gateset_offsets[label][1]
                      end == self.gateset_offsets[label][2]
                  IN  /\ Len(last.ret) = end - start
                      /\ \A j \in 1..(end - start) : last.ret[j] = self.profLCI[start + j]

C6_Witness ==
  /\ last.op = "get_profile_likelihood_confidence_intervals"
  /\ last.args.label = "E0"
  /\ LET start == region[1].gateset_offsets["E0"][1]
         end == region[1].gateset_offsets["E0"][2]
     IN  /\ start > 0 /\ end < Len(region[1].profLCI)
         /\ last.ret = <<region[1].profLCI[start + 1]>>
         /\ region[1].profLCI[start] # last.ret[1]

\* C7: every entry of the profile-interval vector of a constructed region is
\* non-negative (a number >= 0, +inf included; NaN is not).
C7_ProfLCINonNegative ==
  region # <<>>
    => \A k \in 1..Len(region[1].profLCI) : RootNonNeg(region[1].profLCI[k])

\* C8: a propagation operation raises ValueError exactly when the function
\* returns an array of 3 or more dimensions, of real and of complex type
\* alike, and the error names the number of dimensions; with 0, 1 or 2
\* dimensions (and with a float) it never does.
C8_DimsValueError ==
  Propagating
    => /\ (last.exc = "ValueError")
            <=> (last.args.fn.rtype = "ndarray" /\ last.args.fn.ndim >= 3)
       /\ last.exc = "ValueError" => last.excArg = last.args.fn.ndim

C8_Witness ==
  /\ last.op = "get_spam_fn_confidence_interval"
  /\ last.args.fn.rtype = "ndarray" /\ last.args.fn.dtype = "complex128"
  /\ last.args.fn.ndim = 3
  /\ last.exc = "ValueError" /\ last.excArg = 3

\* C9: for a function that returns the same float at every point each of the
\* three propagation operations returns a half-width of exactly 0, whatever
\* invQ the region holds.
C9_ConstantFnZeroWidth ==
  (Propagating /\ last.args.fn.kind = "const" /\ last.args.fn.rtype = "float")
    => /\ last.exc = "none"
       /\ RootIsZero(last.ret.df[1].re)

\* the point the operation that ran last evaluates the function at first
Unperturbed ==
  CASE last.op = "get_gate_fn_confidence_interval"
         -> GateArg(estimate.gates[last.args.label])
    [] last.op = "get_gateset_fn_confidence_interval" -> GatesetArg(estimate)
    [] OTHER -> SpamArg(estimate)

\* C10: a propagation operation evaluates the function at the unperturbed
\* estimate first and at no later step again; it returns df alone unless the
\* function value is requested, and then the pair of df and the value f0 of
\* that first evaluation.
C10_OneBaseEvaluation ==
  Propagating
    => /\ Len(last.log) >= 1
       /\ last.log[1] = Unperturbed
       /\ \A j \in 2..Len(last.log) : last.log[j] # Unperturbed
       /\ last.exc = "none"
            => /\ last.ret.tuple = last.args.returnFnVal
               /\ Len(last.ret.df) = NumElems(last.args.fn)
               /\ last.ret.f0 = IF last.args.returnFnVal
                                  THEN Eval(last.args.fn, Unperturbed) ELSE <<>>

C10_Witness ==
  /\ last.op = "get_gateset_fn_confidence_interval"
  /\ last.exc = "none" /\ last.args.returnFnVal /\ last.ret.tuple
  /\ last.args.fn.kind = "linear"
  /\ Len(last.log) = 1 + Len(region[1].profLCI)
  /\ last.ret.f0 = Eval(last.args.fn, GatesetArg(estimate))

---------------------------------------------------------------------------
(* Properties of the gradients (checked under SpecProp).                   *)

\* the operation that ran last got as far as _compute_df_from_gradF
GradientBuilt == Propagating /\ last.exc \in {"none", "ValueError"}

ZeroEntry(g) == \A e \in 1..Len(g) : IsZero(g[e].re) /\ IsZero(g[e].im)

Flags == region[1].gateset_paramFlags

\* the number of perturbed evaluations of the operation that ran last
Perturbed == Len(last.log) - 1

\* C11: the per-gate operation writes gradient entries only at the 0-based
\* indices start .. start + nGateParams - 1 of the target gate's block and
\* makes one perturbed evaluation per index of the block; every entry outside
\* the block is zero; when the gates flag is False, or a list without the
\* target gate, it makes no perturbed evaluation and the gradient is zero.
C11_GateBlockOnly ==
  (GradientBuilt /\ last.op = "get_gate_fn_confidence_interval")
    => LET label == last.args.label
           active == \/ (Flags.gates.tag = "bool" /\ Flags.gates.val)
                     \/ (Flags.gates.tag = "list"
                           /\ label \in SeqToSet(Flags.gates.labels))
           start == region[1].gateset_offsets[label][1]
           n == GateNumParams(estimate.gates[label], Flags.G0)
       IN  /\ Len(last.gradF) = NumParams(estimate, Flags)
           /\ \A i \in 1..Len(last.gradF) :
                (~active \/ i < start + 1 \/ i > start + n) => ZeroEntry(last.gradF[i])
           /\ Perturbed = IF active THEN n ELSE 0
           /\ active => region[1].gateset_offsets[label][2] = start + n

C11_Witness ==
  /\ GradientBuilt /\ last.op = "get_gate_fn_confidence_interval"
  /\ last.args.fn.kind = "linear" /\ last.args.label = "Gy"
  /\ Flags.gates.tag = "list" /\ Flags.G0
  /\ Perturbed = 2
  /\ LET start == region[1].gateset_offsets["Gy"][1]
     IN  /\ start > 0
         /\ ~ZeroEntry(last.gradF[start + 1]) /\ ~ZeroEntry(last.gradF[start + 2])
         /\ \A i \in 1..start : ZeroEntry(last.gradF[i])

\* a call for a gate the flags leave out
C11_WitnessInactive ==
  /\ GradientBuilt /\ last.op = "get_gate_fn_confidence_interval"
  /\ last.args.fn.kind = "linear" /\ last.args.label = "Gy"
  /\ Flags.gates.tag = "list" /\ Flags.gates.labels = <<"Gx">>
  /\ Perturbed = 0
  /\ \A i \in 1..Len(last.gradF) : ZeroEntry(last.gradF[i])

\* ( v - f0 ) / eps for one element, written out
Quotient(v, f0, eps) ==
  [re |-> FDiv(FSub(v.re, f0.re), Int2F(eps)),
   im |-> FDiv(FSub(v.im, f0.im), Int2F(eps))]

\* C12: the per-gate-set operation makes nParams + 1 evaluations: the one at
\* the unperturbed point and, for every index i of 0 .. nParams-1, exactly
\* one perturbed evaluation, the (i+1)-th, from which gradient entry i is
\* formed.
C12_OneEvaluationPerParam ==
  (GradientBuilt /\ last.op = "get_gateset_fn_confidence_interval")
    => LET nParams == NumParams(estimate, Flags)
           fn == last.args.fn
           f0 == Eval(fn, last.log[1])
       IN  /\ Len(last.log) = nParams + 1
           /\ Len(last.gradF) = nParams
           /\ \A i \in 1..nParams :
                \A e \in 1..NumElems(fn) :
                  last.gradF[i][e] = Quotient(Eval(fn, last.log[i + 1])[e], f0[e], last.args.eps)

C12_Witness ==
  /\ GradientBuilt /\ last.op = "get_gateset_fn_confidence_interval"
  /\ last.args.fn.kind = "linear" /\ last.args.fn.rtype = "ndarray"
  /\ last.args.fn.ndim = 1
  /\ NumParams(estimate, Flags) = 5
  /\ Len(last.log) = 6
  /\ \A i \in 1..5 : ~ZeroEntry(last.gradF[i])

\* the 1-based gradient indices of the blocks of the state-preparation and
\* effect vectors
SpamIndices ==
  UNION { (region[1].gateset_offsets[l][1] + 1)..region[1].gateset_offsets[l][2] :
            l \in {RhoLabel(k - 1) : k \in 1..Len(estimate.rhoVecs)}
                  \cup {ELabel(k - 1) : k \in 1..Len(estimate.EVecs)} }

\* the per-SPAM operation leaves every gradient entry outside the SPAM blocks
\* zero and, with the SPAM flag false, evaluates at no perturbed point
SpamBlocksOnly ==
  (GradientBuilt /\ last.op = "get_spam_fn_confidence_interval")
    => /\ Len(last.gradF) = NumParams(estimate, Flags)
       /\ \A i \in 1..Len(last.gradF) :
            (i \notin SpamIndices \/ ~Flags.SPAM) => ZeroEntry(last.gradF[i])
       /\ Perturbed = IF Flags.SPAM THEN Cardinality(SpamIndices) ELSE 0

\* C13: the per-SPAM operation writes gradient entries only inside the blocks
\* of the state-preparation and effect vectors; with the SPAM flag false it
\* makes no perturbed evaluation, the gradient is all zero and the half-width
\* it returns is zero.
C13_SpamBlocksZeroWidth ==
  /\ SpamBlocksOnly
  /\ (last.op = "get_spam_fn_confidence_interval" /\ last.exc = "none" /\ ~Flags.SPAM)
       => \A e \in 1..Len(last.ret.df) :
            RootIsZero(last.ret.df[e].re) /\ RootIsZero(last.ret.df[e].im)

\* for each index of the active parameter vector, the position of that
\* parameter among the numbers a gate-set function is handed: rho0 (2), E0 (1),
\* Gx (2), Gy (2).  The linear function has coefficient j at position j.
ActivePositions ==
  LET gateOn(l) == l \in SeqToSet(GatesToInclude(Flags.gates))
  IN  (IF Flags.SPAM THEN (IF Flags.SP0 THEN <<1, 2>> ELSE <<2>>) \o <<3>> ELSE <<>>)
      \o (IF gateOn("Gx") THEN (IF Flags.G0 THEN <<4, 5>> ELSE <<5>>) ELSE <<>>)
      \o (IF gateOn("Gy") THEN (IF Flags.G0 THEN <<6, 7>> ELSE <<7>>) ELSE <<>>)

ScalarLinear(fn) ==
  /\ fn.kind = "linear"
  /\ fn.rtype = "float" \/ (fn.rtype = "ndarray" /\ fn.ndim = 0 /\ fn.dtype = "float64")

\* C16: for a linear scalar function a.x the gradient the per-gate-set
\* operation forms by forward differences has, at every index i of the active
\* parameter vector, the coefficient a_i of that parameter (exactly, the model
\* computing without rounding).
C16_LinearGradient ==
  (GradientBuilt /\ last.op = "get_gateset_fn_confidence_interval"
     /\ ScalarLinear(last.args.fn))
    => /\ Len(last.gradF) = Len(ActivePositions)
       /\ \A i \in 1..Len(last.gradF) :
            last.gradF[i][1].re = Int2F(ActivePositions[i])

C16_Witness ==
  /\ GradientBuilt /\ last.op = "get_gateset_fn_confidence_interval"
  /\ ScalarLinear(last.args.fn) /\ last.args.eps = 2
  /\ ~Flags.G0 /\ Flags.gates.tag = "list"
  /\ Len(last.gradF) = 4
  /\ last.gradF[4][1].re = Int2F(5)

\* the parameters among the numbers a function is handed: all of them, but
\* for the per-SPAM operation, which appends the complement effect vector
ParamPart(arg) ==
  IF last.op = "get_spam_fn_confidence_interval"
    THEN SubSeq(arg, 1, Len(ConcatAll(estimate.rhoVecs)) + Len(ConcatAll(estimate.EVecs)))
    ELSE arg

\* the coordinates in which the j-th evaluation point differs from the first
Moved(j) ==
  {k \in 1..Len(ParamPart(last.log[1])) :
     ParamPart(last.log[j])[k] # ParamPart(last.log[1])[k]}

\* C19: at every perturbed evaluation of a propagation operation the object
\* handed to the function differs from the unperturbed estimate in exactly
\* one parameter, by exactly eps, and no two evaluations move the same
\* parameter: no perturbation outlives its own evaluation.
C19_SingleCoordinate ==
  Propagating
    => /\ ParamPart(last.log[1]) = ParamPart(Unperturbed)
       /\ \A j \in 2..Len(last.log) :
            /\ Cardinality(Moved(j)) = 1
            /\ \A k \in Moved(j) :
                 ParamPart(last.log[j])[k] = ParamPart(last.log[1])[k] + last.args.eps
            /\ \A i \in 2..(j - 1) : Moved(i) # Moved(j)

\* the per-SPAM operation past the block of the state preparation
C19_Witness ==
  /\ last.op = "get_spam_fn_confidence_interval" /\ last.exc = "none"
  /\ Flags.SPAM /\ Flags.SP0 /\ last.args.eps = 2
  /\ Len(last.log) = 4
  /\ Moved(2) = {1} /\ Moved(3) = {2} /\ Moved(4) = {3}

\* the number of parameters handed to a function before the k-th
\* state-preparation vector, and before the k-th effect vector
RhoPos(k) == Len(ConcatAll(SubSeq(estimate.rhoVecs, 1, k - 1)))
EPos(k) == Len(ConcatAll(estimate.rhoVecs)) + Len(ConcatAll(SubSeq(estimate.EVecs, 1, k - 1)))

\* gradient index idx (0-based) was formed from the one evaluation at which
\* exactly parameter pos (1-based) was perturbed
FedBy(idx, pos) ==
  LET fn == last.args.fn
      f0 == Eval(fn, last.log[1])
      at == {j \in 2..Len(last.log) : pos \in Moved(j)}
  IN  /\ Cardinality(at) = 1
      /\ \A j \in at :
           /\ Moved(j) = {pos}
           /\ \A e \in 1..NumElems(fn) :
                last.gradF[idx + 1][e]
                  = Quotient(Eval(fn, last.log[j])[e], f0[e], last.args.eps)

\* C20: in the per-SPAM operation with SP0 false the first element of each
\* state-preparation vector is never perturbed and the vector contributes
\* length-1 gradient entries, element i+1 (0-based) feeding index offset+i;
\* with SP0 true every element is perturbed and the vector contributes length
\* entries; an effect vector always contributes one entry per element.
C20_SP0FirstElement ==
  (GradientBuilt /\ last.op = "get_spam_fn_confidence_interval" /\ Flags.SPAM)
    => /\ \A k \in 1..Len(estimate.rhoVecs) :
            LET rhoVec == estimate.rhoVecs[k]
                off == region[1].gateset_offsets[RhoLabel(k - 1)][1]
                n == IF Flags.SP0 THEN Len(rhoVec) ELSE Len(rhoVec) - 1
                first == IF Flags.SP0 THEN 0 ELSE 1
            IN  /\ \A i \in 0..(n - 1) : FedBy(off + i, RhoPos(k) + first + i + 1)
                /\ ~Flags.SP0
                     => \A j \in 2..Len(last.log) : (RhoPos(k) + 1) \notin Moved(j)
       /\ \A k \in 1..Len(estimate.EVecs) :
            LET off == region[1].gateset_offsets[ELabel(k - 1)][1]
            IN  \A i \in 0..(Len(estimate.EVecs[k]) - 1) : FedBy(off + i, EPos(k) + i + 1)
       /\ Perturbed
            = FoldSum([k \in 1..Len(estimate.rhoVecs) |->
                         IF Flags.SP0 THEN Len(estimate.rhoVecs[k])
                                      ELSE Len(estimate.rhoVecs[k]) - 1])
              + Len(ConcatAll(estimate.EVecs))

\* SP0 false: the second element of rho0 feeds index 0, the element of E0
\* index 1, and the linear function shows their coefficients 2 and 3
C20_Witness ==
  /\ GradientBuilt /\ last.op = "get_spam_fn_confidence_interval"
  /\ Flags.SPAM /\ ~Flags.SP0
  /\ ScalarLinear(last.args.fn)
  /\ Perturbed = 2
  /\ Moved(2) = {2} /\ Moved(3) = {3}
  /\ last.gradF[1][1].re = Int2F(2)

\* SP0 true: both elements of rho0 are perturbed
C20_WitnessSP0 ==
  /\ GradientBuilt /\ last.op = "get_spam_fn_confidence_interval"
  /\ Flags.SPAM /\ Flags.SP0
  /\ Perturbed = 3
  /\ Moved(2) = {1} /\ Moved(3) = {2} /\ Moved(4) = {3}

---------------------------------------------------------------------------
(* Properties of the inversion (checked under Spec).                       *)

ToyHessian == Diag(<<Int2F(1), Int2F(1), Int2F(100), Int2F(100)>>)

\* construction used the projector that nulls the first nGauge parameters
FirstNulled ==
  \/ last.args.mode \in {"none", "std"}
  \/ (last.args.mode = "optimal gate CIs" /\ last.args.min.final = 0)

\* C14: for the Hessian diag(1, 1, 100, 100), the projector that nulls the
\* first two parameters and level 95, the profile intervals are 0, 0,
\* sqrt(C1/100), sqrt(C1/100) with C1 = chi2.ppf(0.95, 1).
C14_ToyHessian ==
  (Constructed /\ last.args.hessian = ToyHessian /\ last.args.level = 950
     /\ estimate.nGauge = 2 /\ FirstNulled)
    => /\ last.exc = "none" /\ region # <<>>
       /\ region[1].profLCI = << SqrtOf(Zero), SqrtOf(Zero),
                                 SqrtOf(Fin(1, 100)), SqrtOf(Fin(1, 100)) >>
       /\ region[1].invRegionQuadcForm.times = Chi2Ppf(950, 1)

C14_Witness ==
  /\ Constructed /\ last.args.hessian = ToyHessian /\ last.args.level = 950
  /\ estimate.nGauge = 2 /\ last.args.mode = "std"
  /\ region # <<>>
  /\ region[1].nGaugeParams = 2
  /\ region[1].profLCI[4] = SqrtOf(Fin(1, 100))

\* the Hessian of the construction that ran last projected by hand: P.H.P
\* with P the estimate's non-gauge projector
ProjectedByHand ==
  LET P == GetNongaugeProjector(NumParams(estimate, last.args.f), estimate.nGauge, 0)
  IN  Dot(P, Dot(last.args.hessian, P))

\* the region that mode "none" builds on Hessian ph, with the estimate, level
\* and flags of the construction that ran last
NoneOn(ph) ==
  CRInit("est", estimate, ph, last.args.level, last.args.f, "none", NoMinimizer, MaxStack)

\* C15: for any Hessian H and valid level the standard mode on H builds the
\* same Q and the same invQ as mode "none" does on P.H.P.
C15_NoneOnProjectedIsStd ==
  (Constructed /\ last.args.mode = "std" /\ LevelOk(last.args.level))
    => \A ph \in {ProjectedByHand} : \A other \in {NoneOn(ph)} :
         /\ last.exc = "none" /\ other.exc = "none"
         /\ other.obj[1].regionQuadcForm = region[1].regionQuadcForm
         /\ other.obj[1].invRegionQuadcForm = region[1].invRegionQuadcForm

\* a Hessian that the projection changes
C15_Witness ==
  /\ Constructed /\ last.args.mode = "std" /\ last.exc = "none"
  /\ estimate.nGauge = 2
  /\ region[1].regionQuadcForm.mx # last.args.hessian
  /\ region[1].regionQuadcForm.mx = ProjectedByHand
  /\ \E k \in 1..Len(region[1].profLCI) : ~RootIsZero(region[1].profLCI[k])

\* the eigenvalue indices whose inverse is zero, and those holding 1/eval
Zeroed == {i \in 1..Len(region[1].invEvals) : IsZero(region[1].invEvals[i])}
Inverted ==
  {i \in 1..Len(region[1].invEvals) :
     /\ ~IsZero(region[1].invEvals[i])
     /\ region[1].invEvals[i] = FDiv(Int2F(1), region[1].evals[i])}

\* C17: of the eigenvalues of Q exactly nGaugeParams get the inverse 0 and
\* exactly nNonGaugeParams the inverse 1/eval, and no eigenvalue with inverse
\* 0 is larger in magnitude than one that is inverted.  (In the model the
\* Hessian always has the projector's dimension.)
C17_PseudoInverseCounts ==
  region # <<>>
    => /\ Len(region[1].evals) = Len(built[1].hessian)
       /\ Cardinality(Zeroed) = region[1].nGaugeParams
       /\ Cardinality(Inverted) = region[1].nNonGaugeParams
       /\ Zeroed \cup Inverted = 1..Len(region[1].evals)
       /\ \A z \in Zeroed, v \in Inverted :
            ~FLess(FAbs(region[1].evals[v]), FAbs(region[1].evals[z]))

\* some but not all eigenvalues inverted, a negative one among them
C17_Witness ==
  /\ Constructed /\ region # <<>>
  /\ region[1].nGaugeParams = 2 /\ region[1].nNonGaugeParams = 3
  /\ Cardinality(Zeroed) = 2
  /\ \E v \in Inverted : region[1].evals[v].n < 0

\* nGaugeParams = 0: every eigenvalue inverted
C17_WitnessAllInverted ==
  /\ Constructed /\ region # <<>> /\ region[1].nGaugeParams = 0
  /\ Inverted = 1..Len(region[1].evals) /\ Len(region[1].evals) = 5

\* nGaugeParams = dimension: no eigenvalue inverted
C17_WitnessNoneInverted ==
  /\ Constructed /\ region # <<>>
  /\ region[1].nGaugeParams = Len(region[1].evals)
  /\ Inverted = {} /\ \E i \in Zeroed : ~IsZero(region[1].evals[i])

\* C18: in every constructed region nGaugeParams + nNonGaugeParams is the
\* dimension of the Hessian supplied, nNonGaugeParams being the rank of the
\* estimate's non-gauge projector (the number of its non-zero diagonal
\* entries, the projectors of the model being diagonal).
C18_GaugeCountsSum ==
  region # <<>>
    => LET P == GetNongaugeProjector(NumParams(estimate, Flags), estimate.nGauge, 0)
       IN  /\ region[1].nGaugeParams + region[1].nNonGaugeParams = Len(built[1].hessian)
           /\ region[1].nNonGaugeParams
                = Cardinality({i \in 1..Len(P) : P[i][i] # Zero})

C18_Witness ==
  /\ Constructed /\ region # <<>>
  /\ estimate.nGauge = 2
  /\ Len(built[1].hessian) = 5
  /\ region[1].nNonGaugeParams = 3 /\ region[1].nGaugeParams = 2

---------------------------------------------------------------------------
(* Properties of the projection optimizer (checked under Spec).            *)

\* the positions of event e in the events of the last operation
EventsAt(e) == {i \in 1..Len(last.events) : last.events[i] = e}

\* C21: every region the objective function builds is constructed in mode
\* "none" (the constructor entered right after each objective call is the
\* one of mode "none"), no constructor but the top-level one is entered in
\* another mode, and the optimizer is entered at most once per top-level
\* construction.
C21_ObjectiveBuildsInModeNone ==
  Constructed
    => /\ \A i \in EventsAt("objective") :
            i < Len(last.events) /\ last.events[i + 1] = "init_none"
       /\ \A i \in EventsAt("init_std") \cup EventsAt("init_optimal")
                   \cup EventsAt("init_other") : i = 1
       /\ Cardinality(EventsAt("optimize")) <= 1
       /\ Happened("optimize") => last.args.mode = "optimal gate CIs"

C21_Witness ==
  /\ Constructed /\ last.args.mode = "optimal gate CIs" /\ last.exc = "none"
  /\ Cardinality(EventsAt("objective")) = 2
  /\ Cardinality(EventsAt("init_none")) = 2
  /\ Cardinality(EventsAt("optimize")) = 1

\* the base Hessian sandwiched by the projector of mixing matrix mix
Sandwiched(hessian, mix) ==
  LET proj_extra == GetNongaugeProjector(Len(hessian), estimate.nGauge, mix)
  IN  Dot(proj_extra, Dot(hessian, proj_extra))

\* the minimizer of the last construction ran to its caps and returned
\* without having converged (an objective that raises, as it does on a level
\* out of range, ends the minimizer before that)
StoppedAtCap ==
  /\ Constructed /\ last.args.mode = "optimal gate CIs"
  /\ ~last.args.min.converged
  /\ LevelOk(last.args.level)

\* C22: when the minimizer returns without having converged, no error is
\* raised and the minimizer is not run again: the objective has been
\* evaluated once per point of the one run, and the region is built on the
\* Hessian sandwiched by the projector of the minimizer's final mixing matrix.
C22_NonConvergenceAccepted ==
  StoppedAtCap
    => /\ last.exc = "none" /\ region # <<>>
       /\ Cardinality(EventsAt("optimize")) = 1
       /\ Cardinality(EventsAt("objective")) = Len(last.args.min.cands)
       /\ \A ph \in {Sandwiched(last.args.hessian, last.args.min.final)} :
            region[1].regionQuadcForm.mx = ph

\* a run that ended unconverged at a mixing matrix other than the start: the
\* region is built on a Hessian other than the one sandwiched at the start
C22_Witness ==
  /\ StoppedAtCap /\ Happened("not_converged")
  /\ last.args.min.final = 1 /\ estimate.nGauge = 2
  /\ last.exc = "none" /\ region # <<>>
  /\ last.args.hessian = HessianOf("toy", 5)
  /\ region[1].regionQuadcForm.mx = Sandwiched(last.args.hessian, 1)
  /\ region[1].regionQuadcForm.mx # Sandwiched(last.args.hessian, 0)

\* C24: a level outside (0,100) is rejected before anything else is done:
\* the Hessian has not been projected and the optimizer has not been entered.
C24_LevelRejectedFirst ==
  (Constructed /\ ~LevelOk(last.args.level))
    => /\ last.exc = "AssertionError"
       /\ ~Happened("project") /\ ~Happened("optimize") /\ ~Happened("objective")
       /\ ~Happened("get_nongauge_projector")

---------------------------------------------------------------------------
(* Properties of interleaved calls (checked under SpecCalls).              *)

\* what the call c yields when it runs alone, from start to end, on the
\* region and the estimate as construction left them
Alone(c) ==
  LET self == built[1].region
      h0 == [est |-> built[1].estimate, work |-> NoObject]
  IN  CASE c.op = "get_gate_fn_confidence_interval"
             -> GetGateFnConfidenceInterval(self, h0, c.fn, c.label, c.eps, c.rv)
        [] c.op = "get_gateset_fn_confidence_interval"
             -> GetGatesetFnConfidenceInterval(self, h0, c.fn, c.eps, c.rv)
        [] OTHER -> GetSpamFnConfidenceInterval(self, h0, c.fn, c.eps, c.rv)

\* C23: however the steps of two propagation calls on one region interleave,
\* neither call sees the other: the estimate and the region stay as
\* constructed, each call evaluates the function at the points it would
\* evaluate it at alone, and it returns what it would return alone.
C23_InterleavedCallsIndependent ==
  \A t \in Threads :
    calls[t].pc # "idle"
      => \A a \in {Alone(calls[t])} :
           /\ estimate = built[1].estimate
           /\ region = <<built[1].region>>
           /\ calls[t].log = SubSeq(a.log, 1, Len(calls[t].log))
           /\ calls[t].pc = "done"
                => /\ calls[t].exc = a.exc /\ calls[t].excArg = a.excArg
                   /\ calls[t].ret = a.ret
                   /\ calls[t].gradF = a.gradF
                   /\ calls[t].log = a.log

\* two calls with different eps have both returned, each having made a step
\* while the other was in the middle of its loops
C23_Witness ==
  /\ \A t \in Threads :
       /\ calls[t].pc = "done" /\ calls[t].exc = "none"
       /\ calls[t].overlapped /\ calls[t].n >= 2
  /\ calls[1].op = "get_spam_fn_confidence_interval"
  /\ calls[2].op = "get_gateset_fn_confidence_interval"
  /\ calls[1].eps # calls[2].eps

---------------------------------------------------------------------------
(* protocols/protocol.py: protocol inputs, ProtocolData with its lazily    *)
(* created sub-data, and MultiProtocol.run.  An input is a record: multi   *)
(* says whether it is a MultiInput, keys is the order of the keys of its   *)
(* _subinputs and subs the sub-inputs in that order.  ProtocolData objects *)
(* live in a heap (a sequence; an object's identity is its index), a dict  *)
(* is a function on its set of keys.                                       *)

DictHas(dct, k) == k \in DOMAIN dct
DictPut(dct, k, v) == [x \in (DOMAIN dct) \cup {k} |-> IF x = k THEN v ELSE dct[x]]
EmptyDict == <<>>

\* a ProtocolInput that is no MultiInput
PlainInput(tag) == [multi |-> FALSE, tag |-> tag, keys |-> <<>>, subs |-> <<>>]

\* MultiInput(sub_inputs) for a dict with the given keys, in order
MultiInput(keys, subs) == [multi |-> TRUE, tag |-> "multi", keys |-> keys, subs |-> subs]

\* MultiInput.keys()
InputKeys(inp) == inp.keys

\* MultiInput.__len__
InputLen(inp) == Len(inp.keys)

\* MultiInput.__getitem__: self._subinputs[key], for a key of the dict
InputGetItem(inp, key) ==
  inp.subs[CHOOSE i \in 1..Len(inp.keys) : inp.keys[i] = key]

\* MultiInput.__contains__: key in self._subinputs[key].  The dict lookup
\* raises KeyError for a key that is absent; for one that is present the
\* membership test is made on the sub-input: a MultiInput answers it with
\* this method again, a plain ProtocolInput has neither __contains__ nor
\* __iter__ nor __getitem__, and Python raises TypeError.
RECURSIVE InputContains(_, _)
InputContains(inp, key) ==
  IF key \notin SeqToSet(inp.keys) THEN [exc |-> "KeyError", ret |-> FALSE]
  ELSE LET sub == InputGetItem(inp, key)
       IN  IF sub.multi THEN InputContains(sub, key)
           ELSE [exc |-> "TypeError", ret |-> FALSE]

\* ProtocolData.__init__: _subdatas is {} for a MultiInput, None otherwise
\* (hasSub says it is not None)
ProtocolData(protocol_input) ==
  [input |-> protocol_input, hasSub |-> protocol_input.multi, subdatas |-> EmptyDict]

\* ProtocolData.has_subdata
HasSubdata(self) == self.hasSub

\* MultiInput.create_subdata: ProtocolData(self[sub_name], dataset)
CreateSubdata(inp, sub_name) == ProtocolData(InputGetItem(inp, sub_name))

\* ProtocolData.keys
DataKeys(self) == IF HasSubdata(self) THEN InputKeys(self.input) ELSE <<>>

\* ProtocolData.__len__
DataLen(self) == IF HasSubdata(self) THEN InputLen(self.input) ELSE 0

\* ProtocolData.__contains__
DataContains(self, subdata_name) ==
  IF HasSubdata(self) THEN subdata_name \in SeqToSet(InputKeys(self.input)) ELSE FALSE

NoItem == [exc |-> "none", ret |-> 0, made |-> <<>>]

\* faulty variant: the sub-data is created anew at every access
GetItemUncached(heap, d, subdata_name) ==
  LET self == heap[d]
      new == Len(heap) + 1
  IN  IF ~HasSubdata(self)
        THEN [NoItem EXCEPT !.exc = "ValueError"] @@ [heap |-> heap]
      ELSE IF subdata_name \notin SeqToSet(InputKeys(self.input))
        THEN [NoItem EXCEPT !.exc = "KeyError"] @@ [heap |-> heap]
      ELSE [NoItem EXCEPT !.ret = new, !.made = << <<d, subdata_name>> >>]
           @@ [heap |-> Append([heap EXCEPT ![d].subdatas = DictPut(@, subdata_name, new)],
                               CreateSubdata(self.input, subdata_name))]

\* faulty variant: the name is entered in the cache before it is looked up
\* among the keys of the input
GetItemEager(heap, d, subdata_name) ==
  LET self == heap[d]
      new == Len(heap) + 1
  IN  IF ~HasSubdata(self)
        THEN [NoItem EXCEPT !.exc = "ValueError"] @@ [heap |-> heap]
      ELSE IF DictHas(self.subdatas, subdata_name)
        THEN [NoItem EXCEPT !.ret = self.subdatas[subdata_name]] @@ [heap |-> heap]
      ELSE IF subdata_name \notin SeqToSet(InputKeys(self.input))
        THEN [NoItem EXCEPT !.exc = "KeyError"]
             @@ [heap |-> [heap EXCEPT ![d].subdatas = DictPut(@, subdata_name, 0)]]
      ELSE [NoItem EXCEPT !.ret = new, !.made = << <<d, subdata_name>> >>]
           @@ [heap |-> Append([heap EXCEPT ![d].subdatas = DictPut(@, subdata_name, new)],
                               CreateSubdata(self.input, subdata_name))]

\* ProtocolData.__getitem__ on the object d of the heap: the exception or
\* the returned object, the heap after it, and the calls of create_subdata
\* it made (made)
GetItem(heap, d, subdata_name) ==
  LET self == heap[d]
      new == Len(heap) + 1
  IN  IF ~HasSubdata(self)
        THEN [NoItem EXCEPT !.exc = "ValueError"] @@ [heap |-> heap]
      ELSE IF DictHas(self.subdatas, subdata_name)
        THEN [NoItem EXCEPT !.ret = self.subdatas[subdata_name]] @@ [heap |-> heap]
      ELSE IF subdata_name \notin SeqToSet(InputKeys(self.input))
        THEN [NoItem EXCEPT !.exc = "KeyError"] @@ [heap |-> heap]
      ELSE [NoItem EXCEPT !.ret = new, !.made = << <<d, subdata_name>> >>]
           @@ [heap |-> Append([heap EXCEPT ![d].subdatas = DictPut(@, subdata_name, new)],
                               CreateSubdata(self.input, subdata_name))]

\* ProtocolData.items, consumed to its end: (name, self[name]) for every
\* key of the input, in order
Items(heap, d) ==
  LET keys == DataKeys(heap[d])
      RECURSIVE Loop(_, _)
      Loop(st, i) ==
        IF i > Len(keys) THEN st
        ELSE LET g == GetItem(st.heap, d, keys[i])
             IN  Loop([heap |-> g.heap, made |-> st.made \o g.made,
                       items |-> Append(st.items, <<keys[i], g.ret>>)], i + 1)
  IN  Loop([heap |-> heap, made |-> <<>>, items |-> <<>>], 1)

\* a value that is None or a list
None == [none |-> TRUE, list |-> <<>>]
ListOf(seq) == [none |-> FALSE, list |-> seq]

\* the default "qubit labels"
DefaultQubitLabels == <<"*">>

\* ProtocolInput.__init__(circuits, qubit_labels): len(circuits) is taken
\* of the argument as given, and len(None) raises TypeError
ProtocolInputInit(circuits, qubit_labels) ==
  LET all == IF circuits.none THEN <<>> ELSE circuits.list
  IN  IF qubit_labels.none
        THEN IF circuits.none
               THEN [exc |-> "TypeError", all_circuits_needing_data |-> <<>>,
                     qubit_labels |-> <<>>]
             ELSE IF Len(circuits.list) > 0
               THEN [exc |-> "none", all_circuits_needing_data |-> all,
                     qubit_labels |-> circuits.list[1].line_labels]
             ELSE [exc |-> "none", all_circuits_needing_data |-> all,
                   qubit_labels |-> DefaultQubitLabels]
        ELSE [exc |-> "none", all_circuits_needing_data |-> all,
              qubit_labels |-> qubit_labels.list]

\* protocols: the base class Protocol (whose _run raises), a derived class
\* with a _run of its own, and MultiProtocol(protocols), protocols being a
\* list of protocols or (single) one Protocol in place of the list
BaseProtocol == [kind |-> "base", name |-> "Protocol", single |-> FALSE, protocols |-> <<>>]
DerivedProtocol(name) == [kind |-> "derived", name |-> name, single |-> FALSE, protocols |-> <<>>]
MultiProtocol(protocols) ==
  [kind |-> "multi", name |-> "MultiProtocol", single |-> FALSE, protocols |-> protocols]
MultiProtocolOfOne(protocol) ==
  [kind |-> "multi", name |-> "MultiProtocol", single |-> TRUE, protocols |-> <<protocol>>]

\* the quantities a derived protocol computes from the data object d
QtysOf(self, d) == [by |-> self.name, on |-> d]

NoRun == [exc |-> "none", made |-> <<>>, runs |-> <<>>, qtys |-> EmptyDict]

\* Protocol._run, and its override in a derived class
RunLeaf(self, heap, d) ==
  IF self.kind = "base"
    THEN [NoRun EXCEPT !.exc = "NotImplementedError"] @@ [heap |-> heap]
    ELSE [NoRun EXCEPT !.qtys = QtysOf(self, d)] @@ [heap |-> heap]

\* faulty variant: a single Protocol given in place of the list is run once
ProtocolsOfOnce(self, n) == self.protocols

\* lines 46-48: the list of protocols, one copy per entry of the data for
\* a single Protocol
ProtocolsOf(self, n) ==
  IF self.single THEN [i \in 1..n |-> self.protocols[1]] ELSE self.protocols

RECURSIVE Run(_, _, _)

\* MultiProtocol.run(data), data being the object d of the heap.  runs
\* holds, for every turn of the loop, the protocol run, the name and the
\* sub-data it was run on, and the quantities that came back.
MultiProtocolRun(self, heap, d) ==
  LET data == heap[d]
      protocols == ProtocolsOf(self, DataLen(data))
      keys == DataKeys(data)
      \* for (qubit_labels, sub_data), protocol in zip(data.items(), protocols)
      RECURSIVE Loop(_, _)
      Loop(st, i) ==
        IF i > Len(keys) \/ i > Len(protocols) THEN st
        ELSE LET g == GetItem(st.heap, d, keys[i])
                 sub_results == Run(protocols[i], g.heap, g.ret)
                 made == st.made \o g.made \o sub_results.made
                 runs == Append(st.runs, [protocol |-> protocols[i], name |-> keys[i],
                                          data |-> g.ret, exc |-> sub_results.exc,
                                          qtys |-> sub_results.qtys])
             IN  IF sub_results.exc # "none"
                   THEN [exc |-> sub_results.exc, heap |-> sub_results.heap, made |-> made,
                         runs |-> runs, qtys |-> st.qtys]
                   ELSE Loop([exc |-> "none", heap |-> sub_results.heap, made |-> made,
                              runs |-> runs,
                              qtys |-> DictPut(st.qtys, keys[i], sub_results.qtys)], i + 1)
  IN  IF ~HasSubdata(data)
        THEN [NoRun EXCEPT !.exc = "AssertionError"] @@ [heap |-> heap]
      ELSE IF DataLen(data) # Len(protocols)
        THEN [NoRun EXCEPT !.exc = "AssertionError"] @@ [heap |-> heap]
      ELSE Loop(NoRun @@ [heap |-> heap], 1)

\* Protocol.run(data): data with sub-data is handed to an implicit
\* MultiProtocol(self)
ProtocolRun(self, heap, d) ==
  IF HasSubdata(heap[d]) THEN MultiProtocolRun(MultiProtocolOfOne(self), heap, d)
  ELSE RunLeaf(self, heap, d)

\* protocol.run(data): MultiProtocol overrides Protocol.run
Run(self, heap, d) ==
  IF self.kind = "multi" THEN MultiProtocolRun(self, heap, d)
  ELSE ProtocolRun(self, heap, d)

---------------------------------------------------------------------------
(* The state machine of the protocol objects.  proto.heap holds the        *)
(* ProtocolData objects, the first being the one the caller constructed;   *)
(* proto.made lists the calls of create_subdata made so far (object,       *)
(* name), proto.returned the objects indexing has returned so far (object, *)
(* name, returned object); proto.last is the operation that ran last.      *)

\* the inputs ProtocolData objects are constructed over
Inputs ==
  { PlainInput("x"),
    MultiInput(<<>>, <<>>),
    MultiInput(<<"a">>, <<PlainInput("x")>>),
    MultiInput(<<"a", "b">>, <<PlainInput("x"), PlainInput("y")>>),
    MultiInput(<<"b", "a">>, <<MultiInput(<<"b">>, <<PlainInput("y")>>), PlainInput("x")>>) }

\* the names callers index with
Names == {"a", "b", "c"}

\* the protocols callers run
Protocols ==
  LET p1 == DerivedProtocol("p1")
      p2 == DerivedProtocol("p2")
  IN  { p1, BaseProtocol,
        MultiProtocol(<<>>), MultiProtocol(<<p1>>), MultiProtocol(<<p1, p2>>),
        MultiProtocol(<<MultiProtocol(<<p2>>), p1>>),
        MultiProtocolOfOne(p1), MultiProtocolOfOne(BaseProtocol) }

\* a circuit with the given line labels
CircuitOn(labels) == [line_labels |-> labels]

\* the arguments ProtocolInput is constructed with
CircuitArgs ==
  { None, ListOf(<<>>), ListOf(<<CircuitOn(<<"Q0">>)>>),
    ListOf(<<CircuitOn(<<"Q1", "Q2">>), CircuitOn(<<"Q0">>)>>) }

QubitLabelArgs == { None, ListOf(<<"Q5">>) }

PIdle ==
  [op |-> "none", d |-> 0, name |-> "", p |-> BaseProtocol, exc |-> "none",
   retId |-> 0, retBool |-> FALSE, retLen |-> 0, items |-> <<>>,
   runs |-> <<>>, qtys |-> EmptyDict, made |-> <<>>,
   circuits |-> None, qubit_labels |-> None, input |-> <<>>]

InitProto ==
  /\ estimate = Estimate0(0)
  /\ region = <<>>
  /\ built = <<>>
  /\ last = Idle
  /\ calls = [t \in Threads |-> NoCall]
  /\ proto \in { [heap |-> <<ProtocolData(inp)>>, made |-> <<>>, returned |-> {},
                  last |-> PIdle] : inp \in Inputs }

\* data[name], data being the object d
PGetItem(d, name) ==
  /\ \E g \in {GetItem(proto.heap, d, name)} :
       proto' = [heap |-> g.heap,
                 made |-> proto.made \o g.made,
                 returned |-> IF g.exc = "none"
                                THEN proto.returned \cup {<<d, name, g.ret>>}
                                ELSE proto.returned,
                 last |-> [PIdle EXCEPT !.op = "getitem", !.d = d, !.name = name,
                                        !.exc = g.exc, !.retId = g.ret, !.made = g.made]]
  /\ UNCHANGED <<estimate, region, built, last, calls>>

\* list(data.items())
PItems(d) ==
  /\ \E r \in {Items(proto.heap, d)} :
       proto' = [heap |-> r.heap,
                 made |-> proto.made \o r.made,
                 returned |-> proto.returned
                                \cup {<<d, r.items[i][1], r.items[i][2]>> : i \in 1..Len(r.items)},
                 last |-> [PIdle EXCEPT !.op = "items", !.d = d, !.items = r.items,
                                        !.made = r.made]]
  /\ UNCHANGED <<estimate, region, built, last, calls>>

\* name in data
PContains(d, name) ==
  /\ proto' = [proto EXCEPT !.last =
                 [PIdle EXCEPT !.op = "contains", !.d = d, !.name = name,
                               !.retBool = DataContains(proto.heap[d], name)]]
  /\ UNCHANGED <<estimate, region, built, last, calls>>

\* name in data.input, the input being a MultiInput
PInputContains(d, name) ==
  /\ proto.heap[d].input.multi
  /\ \E r \in {InputContains(proto.heap[d].input, name)} :
       proto' = [proto EXCEPT !.last =
                   [PIdle EXCEPT !.op = "input_contains", !.d = d, !.name = name,
                                 !.exc = r.exc, !.retBool = r.ret]]
  /\ UNCHANGED <<estimate, region, built, last, calls>>

\* len(data)
PLen(d) ==
  /\ proto' = [proto EXCEPT !.last =
                 [PIdle EXCEPT !.op = "len", !.d = d, !.retLen = DataLen(proto.heap[d])]]
  /\ UNCHANGED <<estimate, region, built, last, calls>>

\* p.run(data)
PRun(p, d) ==
  /\ \E r \in {Run(p, proto.heap, d)} :
       proto' = [heap |-> r.heap,
                 made |-> proto.made \o r.made,
                 returned |-> proto.returned,
                 last |-> [PIdle EXCEPT !.op = "run", !.d = d, !.p = p, !.exc = r.exc,
                                        !.runs = r.runs, !.qtys = r.qtys, !.made = r.made]]
  /\ UNCHANGED <<estimate, region, built, last, calls>>

\* ProtocolInput(circuits, qubit_labels)
PNewInput(circuits, qubit_labels) ==
  /\ \E r \in {ProtocolInputInit(circuits, qubit_labels)} :
       proto' = [proto EXCEPT !.last =
                   [PIdle EXCEPT !.op = "new_input", !.exc = r.exc,
                                 !.circuits = circuits, !.qubit_labels = qubit_labels,
                                 !.input = <<r>>]]
  /\ UNCHANGED <<estimate, region, built, last, calls>>

Objects == 1..Len(proto.heap)

NextProto ==
  \/ \E d \in Objects, name \in Names : PGetItem(d, name)
  \/ \E d \in Objects : PItems(d)
  \/ \E d \in Objects, name \in Names : PContains(d, name)
  \/ \E d \in Objects, name \in Names : PInputContains(d, name)
  \/ \E d \in Objects : PLen(d)
  \/ \E p \in Protocols, d \in Objects : PRun(p, d)
  \/ \E circuits \in CircuitArgs, qubit_labels \in QubitLabelArgs :
       PNewInput(circuits, qubit_labels)

SpecProto == InitProto /\ [][NextProto]_vars

---------------------------------------------------------------------------
(* Properties of the protocol objects (checked under SpecProto).           *)

\* how often create_subdata has been called on object d for name
TimesMade(d, name) ==
  Cardinality({i \in 1..Len(proto.made) : proto.made[i] = <<d, name>>})

\* the objects indexing object d with name has returned so far
ReturnedFor(d, name) == {r[3] : r \in {x \in proto.returned : x[1] = d /\ x[2] = name}}

C26_FailedAccess ==
  [][ proto'.last.op = "getitem"
        => LET d == proto'.last.d
               self == proto.heap[d]
           IN  /\ ~HasSubdata(self) => proto'.last.exc = "ValueError"
               /\ (HasSubdata(self) /\ proto'.last.name \notin SeqToSet(self.input.keys))
                    => proto'.last.exc = "KeyError"
               /\ proto'.last.exc # "none"
                    => /\ proto'.heap = proto.heap
                       /\ proto'.made = proto.made
                       /\ proto'.last.made = <<>> ]_vars

\* a name that is no key is asked for when the cache holds both sub-data
C26_Witness ==
  /\ proto.last.op = "getitem" /\ proto.last.d = 1 /\ proto.last.name = "c"
  /\ proto.last.exc = "KeyError"
  /\ DOMAIN proto.heap[1].subdatas = {"a", "b"}
  /\ Len(proto.made) = 2

\* an object without sub-data is indexed
C26_WitnessNoSubdata ==
  /\ proto.last.op = "getitem" /\ proto.last.exc = "ValueError"
  /\ ~HasSubdata(proto.heap[proto.last.d])

\* the protocols MultiProtocol.run is to run on data with n entries
Expected(self, n) ==
  IF self.single THEN [i \in 1..n |-> self.protocols[1]] ELSE self.protocols

C27_WitnessList ==
  /\ proto.last.op = "run" /\ proto.last.p.kind = "multi" /\ ~proto.last.p.single
  /\ proto.last.exc = "none"
  /\ Len(proto.last.runs) = 2
  /\ proto.last.runs[1].protocol # proto.last.runs[2].protocol

\* C28: key in input, for a MultiInput, raises nothing, is true exactly for
\* the keys of the input, and agrees with the membership test of a
\* ProtocolData over that input.
C28_InputContains ==
  proto.last.op = "input_contains"
    => /\ proto.last.exc = "none"
       /\ proto.last.retBool
            = (proto.last.name \in SeqToSet(InputKeys(proto.heap[proto.last.d].input)))
       /\ proto.last.retBool = DataContains(proto.heap[proto.last.d], proto.last.name)

\* C29: ProtocolInput constructed without qubit labels succeeds; without
\* circuits (None or an empty list) it has no circuits needing data and the
\* default qubit labels, with circuits the line labels of the first.
C29_InputWithoutLabels ==
  (proto.last.op = "new_input" /\ proto.last.qubit_labels.none)
    => /\ proto.last.exc = "none"
       /\ proto.last.input[1].all_circuits_needing_data = proto.last.circuits.list
       /\ proto.last.input[1].qubit_labels
            = IF proto.last.circuits.list = <<>> THEN DefaultQubitLabels
              ELSE proto.last.circuits.list[1].line_labels

=============================================================================
